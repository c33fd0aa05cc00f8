----------------------- MODULE InboundDispatchProofs -----------------------
(***************************************************************************)
(* Proofs about InboundDispatch: no message is dropped, an event dies only *)
(* of mishaps, a claim has one owner and a burst one job, for any number   *)
(* of messages, contacts, drains and faults.                               *)
(***************************************************************************)
EXTENDS InboundDispatch, FiniteSetTheorems, TLAPS

(* A tick works on received events of its own batch. *)
Ticks ==
  \A d \in Drainer :
    /\ pc[d] \in {"insert", "done", "postpone", "fail"} => current[d] \in batch[d]
    /\ \A e \in batch[d] : event[e] # "absent"

(* A job belongs to a received message, in the lane of its sender, and its *)
(* turn, once it is past its opening, read that message or left it to a    *)
(* person.                                                                 *)
Jobs ==
  \A j \in Event :
    /\ event[j] # "absent" => sender[j] # None
    /\ phase[j] = "absent" => lane[j] = None
    /\ phase[j] # "absent" => event[j] # "absent" /\ lane[j] = sender[j]
    /\ phase[j] \notin {"absent", "waiting"} => j \in opening \cup read[j] \cup handed
    /\ j \in later => phase[j] = "waiting"
    /\ j \in opening => phase[j] = "leased"

Covered(e) ==
  \/ e \in handed
  \/ \E j \in Event : /\ lane[j] = sender[e] /\ phase[j] # "absent"
                      /\ phase[j] = "waiting" \/ j \in opening \/ e \in read[j]

(* Before its event is consumed, a message is covered. *)
Consumed ==
  /\ \A e \in Event : event[e] = "done" /\ e \notin skipped => Covered(e)
  /\ \A d \in Drainer : pc[d] = "done" /\ current[d] \notin skipped => Covered(current[d])

(* An attempt is paid by a mishap, the one under way excepted. *)
Spent ==
  \A e \in Event :
    /\ attempts[e] <= mishaps[e] + 1
    /\ event[e] \in {"absent", "pending"} => attempts[e] <= mishaps[e]
    /\ \A d \in Drainer : seen[d][e] <= mishaps[e] + 1
    /\ event[e] = "dead" => mishaps[e] >= MaxEventAttempts

(* While nothing is slow, what a tick has is processing and its own. *)
Owned ==
  faults["slow"] = 0 =>
    /\ \A d \in Drainer : \A e \in batch[d] : event[e] = "processing" /\ e \notin overdue
    /\ \A c, d \in Drainer : c # d => batch[c] \cap batch[d] = {}

IInv == TypeOK /\ Ticks /\ Jobs /\ Consumed /\ Spent /\ Owned

USE DEF turnVars

-----------------------------------------------------------------------------
LEMMA BoundTyped == \A f \in Fault : Bound[f] \in Nat
  BY BoundsAssumption DEF Fault, Bound

(* A fault more stays within its bound, and what is slow stays known. *)
LEMMA Faults ==
  ASSUME TypeOK, UNCHANGED faults \/ \E f \in Fault : Suffer(f)
  PROVE /\ faults' \in [Fault -> Nat] /\ \A g \in Fault : faults'[g] <= Bound[g]
        /\ faults'["slow"] = 0 => faults["slow"] = 0 /\ ~Suffer("slow")
  <1>1. faults \in [Fault -> Nat] /\ \A g \in Fault : faults[g] <= Bound[g]
    BY DEF TypeOK
  <1>2. "slow" \in Fault
    BY DEF Fault, Bound
  <1>3. CASE UNCHANGED faults
    <2>1. ~Suffer("slow")
      BY <1>1, <1>2, <1>3 DEF Suffer
    <2> QED
      BY <1>1, <1>3, <2>1
  <1>4. CASE \E f \in Fault : Suffer(f)
    <2>1. PICK f \in Fault : Suffer(f)
      BY <1>4
    <2>2. faults[f] < Bound[f] /\ faults' = [faults EXCEPT ![f] = @ + 1] /\ Bound[f] \in Nat
      BY <2>1, BoundTyped DEF Suffer
    <2>3. faults' \in [Fault -> Nat] /\ faults'[f] = faults[f] + 1 /\ \A g \in Fault : g # f => faults'[g] = faults[g]
      BY <1>1, <2>2
    <2>4. \A g \in Fault : faults'[g] <= Bound[g]
      BY <1>1, <2>2, <2>3
    <2>5. faults["slow"] \in Nat /\ faults[f] \in Nat
      BY <1>1, <1>2
    <2>6. faults'["slow"] = 0 => faults["slow"] = 0
      BY <1>2, <2>3, <2>5
    <2>7. Suffer("slow") => faults'["slow"] = faults["slow"] + 1
      BY <1>1, <1>2 DEF Suffer
    <2> QED
      BY <2>3, <2>4, <2>5, <2>6, <2>7
  <1> QED
    BY <1>3, <1>4

(* The initial states satisfy the invariant. *)
LEMMA InitInv == Init => IInv
  <1> SUFFICES ASSUME Init PROVE IInv
    OBVIOUS
  <1> USE DEF Init, Queue!Init
  <1>1. TypeOK
    <2>1. faults \in [Fault -> Nat] /\ \A f \in Fault : faults[f] <= Bound[f]
      BY BoundTyped
    <2> QED
      BY <2>1, NoneAssumption DEF TypeOK
  <1>2. Ticks /\ Jobs
    BY DEF Ticks, Jobs
  <1>3. Consumed /\ Spent /\ Owned
    BY DEF Consumed, Spent, Owned
  <1> QED
    BY <1>1, <1>2, <1>3 DEF IInv

(* A step on the events: jobs and coverage stay. *)
LEMMA EventSide ==
  ASSUME IInv, UNCHANGED <<sender, jobVars>>,
         \A e \in Event : event[e] # "absent" <=> event'[e] # "absent"
  PROVE Jobs' /\ \A e \in Event : Covered(e) => Covered(e)'
  <1>1. Jobs
    BY DEF IInv
  <1>2. Jobs'
    <2>1. UNCHANGED <<phase, lane, later, opening, read, handed>>
      BY DEF jobVars
    <2> QED
      BY <1>1, <2>1 DEF Jobs
  <1> QED
    BY <1>2 DEF Covered, jobVars

(* A step on the queue: ticks and what they know stay. *)
LEMMA JobSide ==
  ASSUME IInv, UNCHANGED <<eventVars, tickVars>>, faults'["slow"] = 0 => faults["slow"] = 0
  PROVE Ticks' /\ Spent' /\ Owned'
  <1> USE DEF eventVars, tickVars
  <1>1. Ticks /\ Spent /\ Owned
    BY DEF IInv
  <1>2. Ticks' /\ Spent'
    BY <1>1 DEF Ticks, Spent
  <1>3. Owned'
    BY <1>1 DEF Owned
  <1> QED
    BY <1>2, <1>3

(* Consumed stays when coverage does and nothing else is consumed. *)
LEMMA StaysConsumed ==
  ASSUME IInv, \A e \in Event : Covered(e) => Covered(e)', skipped \subseteq skipped',
         \A e \in Event : event'[e] = "done" => event[e] = "done",
         \A d \in Drainer : pc'[d] = "done" => pc[d] = "done" /\ current'[d] = current[d]
  PROVE Consumed'
  <1>1. TypeOK /\ Ticks /\ Consumed
    BY DEF IInv
  <1>2. \A d \in Drainer : pc[d] = "done" => current[d] \in Event
    BY <1>1 DEF TypeOK, Ticks
  <1>3. \A e \in Event : event'[e] = "done" /\ e \notin skipped' => Covered(e)'
    BY <1>1 DEF Consumed
  <1>4. ASSUME NEW d \in Drainer, pc'[d] = "done", current'[d] \notin skipped' PROVE Covered(current[d])'
    <2>1. Covered(current[d])
      BY <1>1, <1>4 DEF Consumed
    <2>2. PICK e \in Event : e = current[d]
      BY <1>2, <1>4
    <2>3. Covered(e)'
      BY <2>1, <2>2
    <2> QED
      BY <1>4, <2>2, <2>3 DEF Covered
  <1> QED
    BY <1>3, <1>4 DEF Consumed

-----------------------------------------------------------------------------
(* Receive: the next message is one that was not received yet. *)
LEMMA NextIsAbsent ==
  ASSUME NEW e \in Event, NEW c \in Contact, NEW media \in BOOLEAN, Receive(e, c, media)
  PROVE  event[e] = "absent"
  <1>1. e \in Nat
    BY EventAssumption
  <1> QED
    BY <1>1 DEF Receive

LEMMA ReceiveInv ==
  ASSUME IInv, NEW e \in Event, NEW c \in Contact, NEW media \in BOOLEAN, Receive(e, c, media) PROVE IInv'
  <1> USE DEF Receive, tickVars, jobVars
  <1>1. TypeOK /\ Ticks /\ Jobs /\ Consumed /\ Spent /\ Owned
    BY DEF IInv
  <1>0. event[e] = "absent"
    BY NextIsAbsent
  <1>2. event'[e] = "pending" /\ sender'[e] = c /\ c # None
        /\ \A x \in Event : x # e => event'[x] = event[x] /\ sender'[x] = sender[x]
    BY <1>1, NoneAssumption DEF TypeOK
  <1>3. TypeOK'
    BY <1>1 DEF TypeOK
  <1>4. Ticks'
    BY <1>1, <1>2 DEF Ticks, TypeOK
  <1>5. phase[e] = "absent" /\ lane[e] = None
    BY <1>0, <1>1 DEF Jobs
  <1>6. Jobs'
    BY <1>1, <1>2, <1>5 DEF Jobs
  <1>7. \A x \in Event : x # e /\ Covered(x) => Covered(x)'
    BY <1>2 DEF Covered
  <1>8. Consumed'
    <2>1. \A d \in Drainer : pc[d] = "done" => current[d] \in Event /\ current[d] # e
      BY <1>0, <1>1 DEF Ticks, TypeOK
    <2>2. \A x \in Event : event'[x] = "done" /\ x \notin skipped => Covered(x)'
      BY <1>1, <1>2, <1>7 DEF Consumed
    <2>3. \A d \in Drainer : pc[d] = "done" /\ current[d] \notin skipped => Covered(current[d])'
      BY <1>1, <1>2, <2>1 DEF Consumed, Covered
    <2> QED
      BY <2>2, <2>3 DEF Consumed, Covered
  <1>9. Spent'
    BY <1>0, <1>1, <1>2 DEF Spent
  <1>10. Owned'
    <2>1. \A d \in Drainer : e \notin batch[d]
      BY <1>0, <1>1 DEF Ticks
    <2> QED
      BY <1>1, <1>2, <2>1 DEF Owned, TypeOK
  <1> QED
    BY <1>3, <1>4, <1>6, <1>8, <1>9, <1>10 DEF IInv

(* ReapEvents: only overdue events, which nobody works on. *)
LEMMA ReapInv == ASSUME IInv, NEW d \in Drainer, ReapEvents(d) PROVE IInv'
  <1> DEFINE orphans == {e \in overdue : event[e] = "processing"}
  <1>0. /\ pc[d] = "idle" /\ pc' = [pc EXCEPT ![d] = "reaped"]
        /\ event' = [e \in Event |-> IF e \in orphans THEN "pending" ELSE event[e]]
        /\ mishaps' = [e \in Event |-> mishaps[e] + IF e \in orphans THEN 1 ELSE 0]
        /\ overdue' = overdue \ orphans
        /\ UNCHANGED <<sender, attempts, waiting, deriving, skipped, batch, current, seen, jobVars, faults>>
    BY DEF ReapEvents
  <1>1. TypeOK /\ Ticks /\ Jobs /\ Consumed /\ Spent /\ Owned
    BY DEF IInv
  <1>2. \A e \in Event : (event[e] = "processing" /\ event'[e] = "pending" /\ mishaps'[e] = mishaps[e] + 1)
                         \/ (event'[e] = event[e] /\ mishaps'[e] = mishaps[e])
    BY <1>0, <1>1 DEF TypeOK
  <1>3. mishaps \in [Event -> Nat] /\ attempts \in [Event -> Nat] /\ seen \in [Drainer -> [Event -> Nat]]
    BY <1>1 DEF TypeOK
  <1>4. pc'[d] = "reaped" /\ \A c \in Drainer : c # d => pc'[c] = pc[c]
    BY <1>0, <1>1 DEF TypeOK
  <1>5. TypeOK'
    <2>1. mishaps' \in [Event -> Nat]
      BY <1>0, <1>3
    <2>2. event' \in [Event -> {"absent", "pending", "processing", "done", "dead"}]
      BY <1>0, <1>1 DEF TypeOK
    <2> QED
      BY <1>0, <1>1, <1>4, <2>1, <2>2 DEF TypeOK, jobVars
  <1>6. Ticks'
    BY <1>0, <1>1, <1>2, <1>4 DEF Ticks, TypeOK
  <1>7. Jobs' /\ \A e \in Event : Covered(e) => Covered(e)'
    BY <1>0, <1>2, EventSide
  <1>8. Consumed'
    BY <1>0, <1>2, <1>4, <1>7, StaysConsumed
  <1>9. Spent'
    BY <1>0, <1>1, <1>2, <1>3, BatchAssumption DEF Spent
  <1>10. Owned'
    BY <1>0, <1>1, <1>2 DEF Owned, TypeOK
  <1> QED
    BY <1>5, <1>6, <1>7, <1>8, <1>9, <1>10 DEF IInv

(* ClaimBatch: pending events have no owner. *)
LEMMA ClaimInv == ASSUME IInv, NEW d \in Drainer, NEW S \in SUBSET Event, ClaimBatch(d, S) PROVE IInv'
  <1>0. /\ pc[d] = "reaped" /\ S \subseteq Ready
        /\ pc' = [pc EXCEPT ![d] = IF S = {} THEN "idle" ELSE "batch"]
        /\ event' = [e \in Event |-> IF e \in S THEN "processing" ELSE event[e]]
        /\ attempts' = [e \in Event |-> attempts[e] + IF e \in S THEN 1 ELSE 0]
        /\ overdue' = overdue \ S
        /\ batch' = [batch EXCEPT ![d] = S]
        /\ seen' = [seen EXCEPT ![d] = [e \in Event |-> IF e \in S THEN attempts'[e] ELSE 0]]
        /\ UNCHANGED <<sender, waiting, deriving, skipped, mishaps, current, jobVars, faults>>
    BY DEF ClaimBatch
  <1>1. TypeOK /\ Ticks /\ Jobs /\ Consumed /\ Spent /\ Owned
    BY DEF IInv
  <1>2. /\ \A e \in S : event[e] = "pending" /\ event'[e] = "processing" /\ attempts'[e] = attempts[e] + 1
        /\ \A e \in Event \ S : event'[e] = event[e] /\ attempts'[e] = attempts[e]
    BY <1>0, <1>1 DEF TypeOK, Ready
  <1>3. mishaps \in [Event -> Nat] /\ attempts \in [Event -> Nat] /\ seen \in [Drainer -> [Event -> Nat]]
    BY <1>1 DEF TypeOK
  <1>4. /\ pc'[d] \in {"idle", "batch"} /\ (pc'[d] = "idle" => S = {})
        /\ \A c \in Drainer : c # d => pc'[c] = pc[c] /\ batch'[c] = batch[c] /\ seen'[c] = seen[c]
        /\ batch'[d] = S /\ current[d] = None
    BY <1>0, <1>1 DEF TypeOK
  <1>5. attempts' \in [Event -> Nat] /\ seen' \in [Drainer -> [Event -> Nat]]
    <2>1. attempts' \in [Event -> Nat]
      BY <1>0, <1>3
    <2>2. [e \in Event |-> IF e \in S THEN attempts'[e] ELSE 0] \in [Event -> Nat]
      BY <2>1
    <2> QED
      BY <1>0, <1>3, <2>1, <2>2
  <1>6. TypeOK'
    <2>1. event' \in [Event -> {"absent", "pending", "processing", "done", "dead"}]
      BY <1>0, <1>1 DEF TypeOK
    <2>2. pc' \in [Drainer -> {"idle", "reaped", "batch", "insert", "done", "postpone", "fail"}]
          /\ batch' \in [Drainer -> SUBSET Event]
      BY <1>0, <1>1 DEF TypeOK
    <2>3. \A c \in Drainer : (current[c] # None => current[c] \in batch'[c])
                             /\ (pc'[c] \in {"idle", "reaped"} => batch'[c] = {})
      BY <1>1, <1>4 DEF TypeOK
    <2> QED
      BY <1>0, <1>1, <1>5, <2>1, <2>2, <2>3 DEF TypeOK, jobVars
  <1>7. Ticks'
    BY <1>0, <1>1, <1>2, <1>4 DEF Ticks, TypeOK
  <1>8. Jobs' /\ \A e \in Event : Covered(e) => Covered(e)'
    BY <1>0, <1>2, EventSide
  <1>9. Consumed'
    BY <1>0, <1>2, <1>4, <1>8, StaysConsumed
  <1>10. Spent'
    <2> SUFFICES ASSUME NEW e \in Event
          PROVE /\ attempts'[e] <= mishaps[e] + 1
                /\ event'[e] \in {"absent", "pending"} => attempts'[e] <= mishaps[e]
                /\ \A c \in Drainer : seen'[c][e] <= mishaps[e] + 1
                /\ event'[e] = "dead" => mishaps[e] >= MaxEventAttempts
      BY <1>0 DEF Spent
    <2>1. attempts'[e] <= mishaps[e] + 1
      BY <1>1, <1>2, <1>3 DEF Spent
    <2>2. seen'[d][e] = IF e \in S THEN attempts'[e] ELSE 0
      BY <1>0, <1>3
    <2>3. seen'[d][e] <= mishaps[e] + 1
      BY <1>3, <2>1, <2>2
    <2> QED
      BY <1>1, <1>2, <1>4, <2>1, <2>3 DEF Spent
  <1>11. Owned'
    <2> SUFFICES ASSUME faults["slow"] = 0
          PROVE /\ \A c \in Drainer : \A e \in batch'[c] : event'[e] = "processing" /\ e \notin overdue'
                /\ \A b, c \in Drainer : b # c => batch'[b] \cap batch'[c] = {}
      BY <1>0 DEF Owned
    <2>1. \A c \in Drainer : \A e \in batch[c] : e \in Event /\ event[e] = "processing" /\ e \notin overdue
      BY <1>1 DEF Owned, TypeOK
    <2>2. \A c \in Drainer : batch[c] \cap S = {}
      BY <1>2, <2>1
    <2>3. \A c \in Drainer : \A e \in batch'[c] : event'[e] = "processing" /\ e \notin overdue'
      BY <1>0, <1>2, <1>4, <2>1, <2>2
    <2>4. \A b, c \in Drainer : b # c => batch'[b] \cap batch'[c] = {}
      BY <1>1, <1>4, <2>2 DEF Owned
    <2> QED
      BY <2>3, <2>4
  <1> QED
    BY <1>6, <1>7, <1>8, <1>9, <1>10, <1>11 DEF IInv

(* Examine: only a job that waits lets an event ride along. *)
LEMMA ExamineInv ==
  ASSUME IInv, NEW d \in Drainer, NEW e \in Event, NEW nobody \in BOOLEAN, Examine(d, e, nobody) PROVE IInv'
  <1>0. /\ pc[d] = "batch" /\ e \in batch[d]
        /\ current' = [current EXCEPT ![d] = e]
        /\ skipped' = IF nobody THEN skipped \cup {e} ELSE skipped
        /\ UNCHANGED <<event, sender, attempts, waiting, overdue, deriving, mishaps, batch, seen, jobVars, faults>>
    BY DEF Examine
  <1>1. TypeOK /\ Ticks /\ Jobs /\ Consumed /\ Spent /\ Owned
    BY DEF IInv
  <1>2. /\ pc'[d] \in {"done", "postpone", "insert"}
        /\ pc'[d] = "done" => nobody \/ RidesAlong(e)
        /\ current'[d] = e /\ pc' \in [Drainer -> {"idle", "reaped", "batch", "insert", "done", "postpone", "fail"}]
        /\ \A c \in Drainer : c # d => pc'[c] = pc[c] /\ current'[c] = current[c]
    BY <1>1 DEF Examine, TypeOK
  <1>3. skipped \subseteq skipped' /\ skipped' \subseteq Event /\ (nobody => e \in skipped')
    BY <1>0, <1>1 DEF TypeOK
  <1>4. TypeOK'
    BY <1>0, <1>1, <1>2, <1>3 DEF TypeOK, jobVars
  <1>5. Ticks'
    BY <1>0, <1>1, <1>2 DEF Ticks
  <1>6. Jobs' /\ \A x \in Event : Covered(x) => Covered(x)'
    BY <1>0, EventSide
  <1>7. RidesAlong(e) => Covered(e)
    <2> SUFFICES ASSUME RidesAlong(e) PROVE Covered(e)
      OBVIOUS
    <2>1. PICK j \in later \cup held : lane[j] = sender[e] /\ phase[j] = "waiting"
      BY DEF RidesAlong
    <2>2. j \in Event
      BY <1>1, <2>1 DEF TypeOK
    <2> QED
      BY <2>1, <2>2 DEF Covered
  <1>8. Consumed'
    <2>1. \A x \in Event : event'[x] = "done" /\ x \notin skipped' => Covered(x)'
      BY <1>0, <1>1, <1>3, <1>6 DEF Consumed
    <2>2. \A c \in Drainer : pc'[c] = "done" /\ current'[c] \notin skipped' => Covered(current[c])'
      <3> SUFFICES ASSUME NEW c \in Drainer, pc'[c] = "done", current'[c] \notin skipped' PROVE Covered(current[c])'
        OBVIOUS
      <3>1. PICK x \in Event : x = current'[c]
        BY <1>0, <1>1, <1>2 DEF TypeOK, Ticks
      <3>2. CASE c = d
        <4>1. Covered(e)'
          BY <1>2, <1>3, <1>6, <1>7, <3>2
        <4> QED
          BY <1>2, <3>2, <4>1 DEF Covered
      <3>3. CASE c # d
        <4>1. Covered(current[c]) /\ x = current[c]
          BY <1>1, <1>2, <1>3, <3>1, <3>3 DEF Consumed
        <4>2. Covered(x)'
          BY <1>6, <4>1
        <4> QED
          BY <3>1, <4>2 DEF Covered
      <3> QED
        BY <3>2, <3>3
    <2> QED
      BY <2>1, <2>2 DEF Consumed
  <1>9. Spent' /\ Owned'
    BY <1>0, <1>1 DEF Spent, Owned
  <1> QED
    BY <1>4, <1>5, <1>6, <1>8, <1>9 DEF IInv

(* StatementFails. *)
LEMMA StatementFailsInv ==
  ASSUME IInv, NEW d \in Drainer, NEW e \in Event, StatementFails(d, e) PROVE IInv'
  <1>0. /\ pc[d] \in {"batch", "insert", "done", "postpone"} /\ e \in batch[d]
        /\ current' = [current EXCEPT ![d] = e] /\ pc' = [pc EXCEPT ![d] = "fail"]
        /\ Suffer("failure") /\ UNCHANGED <<eventVars, batch, seen, jobVars>>
    BY DEF StatementFails, IInv, Ticks
  <1>1. TypeOK /\ Ticks /\ Jobs /\ Consumed /\ Spent /\ Owned
    BY DEF IInv
  <1>2. /\ pc'[d] = "fail" /\ current'[d] = e
        /\ \A c \in Drainer : c # d => pc'[c] = pc[c] /\ current'[c] = current[c]
    BY <1>0, <1>1 DEF TypeOK
  <1>3. /\ faults' \in [Fault -> Nat] /\ \A g \in Fault : faults'[g] <= Bound[g]
        /\ faults'["slow"] = 0 => faults["slow"] = 0
    <2>1. "failure" \in Fault
      BY DEF Fault, Bound
    <2> QED
      BY <1>0, <1>1, <2>1, Faults
  <1>4. TypeOK'
    BY <1>0, <1>1, <1>2, <1>3 DEF TypeOK, jobVars, eventVars
  <1>5. Ticks'
    BY <1>0, <1>1, <1>2 DEF Ticks, eventVars
  <1>6. Jobs' /\ \A x \in Event : Covered(x) => Covered(x)'
    BY <1>0, EventSide DEF eventVars
  <1>7. Consumed'
    BY <1>0, <1>2, <1>6, StaysConsumed DEF eventVars
  <1>8. Spent' /\ Owned'
    BY <1>0, <1>1, <1>3 DEF Spent, Owned, eventVars
  <1> QED
    BY <1>4, <1>5, <1>6, <1>7, <1>8 DEF IInv

(* What the end of an event's turn in the batch leaves of the tick. *)
LEMMA NextEventTyped ==
  ASSUME IInv, NEW d \in Drainer, pc[d] \in {"insert", "done", "postpone", "fail"}, NextEvent(d)
  PROVE /\ current[d] \in Event /\ current[d] \in batch[d]
        /\ pc' \in [Drainer -> {"idle", "reaped", "batch", "insert", "done", "postpone", "fail"}]
        /\ batch' \in [Drainer -> SUBSET Event] /\ current' \in [Drainer -> Event \cup {None}]
        /\ seen' \in [Drainer -> [Event -> Nat]]
        /\ batch'[d] = batch[d] \ {current[d]} /\ current'[d] = None /\ pc'[d] \in {"idle", "batch"}
        /\ pc'[d] = "idle" => batch'[d] = {}
        /\ \A c \in Drainer : c # d => pc'[c] = pc[c] /\ batch'[c] = batch[c] /\ current'[c] = current[c]
        /\ \A c \in Drainer, e \in Event : seen'[c][e] = seen[c][e] \/ seen'[c][e] = 0
  <1>1. TypeOK /\ Ticks
    BY DEF IInv
  <1>2. current[d] \in batch[d] /\ current[d] \in Event
    BY <1>1 DEF Ticks, TypeOK
  <1>3. seen \in [Drainer -> [Event -> Nat]]
    BY <1>1 DEF TypeOK
  <1>4. seen' = [seen EXCEPT ![d] = [seen[d] EXCEPT ![current[d]] = 0]]
    BY DEF NextEvent
  <1>5. [seen[d] EXCEPT ![current[d]] = 0] \in [Event -> Nat]
    BY <1>2, <1>3
  <1>6. seen' \in [Drainer -> [Event -> Nat]]
    BY <1>3, <1>4, <1>5
  <1>7. \A c \in Drainer, e \in Event : seen'[c][e] = seen[c][e] \/ seen'[c][e] = 0
    BY <1>2, <1>3, <1>4, <1>5
  <1>8. /\ pc' \in [Drainer -> {"idle", "reaped", "batch", "insert", "done", "postpone", "fail"}]
        /\ batch' \in [Drainer -> SUBSET Event] /\ current' \in [Drainer -> Event \cup {None}]
    BY <1>1 DEF NextEvent, TypeOK
  <1>9. /\ batch'[d] = batch[d] \ {current[d]} /\ current'[d] = None /\ pc'[d] \in {"idle", "batch"}
        /\ pc'[d] = "idle" => batch'[d] = {}
        /\ \A c \in Drainer : c # d => pc'[c] = pc[c] /\ batch'[c] = batch[c] /\ current'[c] = current[c]
    BY <1>1 DEF NextEvent, TypeOK
  <1> QED
    BY <1>2, <1>6, <1>7, <1>8, <1>9

(* A tick writes the outcome of its event and goes on. *)
LEMMA Outcome ==
  ASSUME IInv, NEW d \in Drainer, pc[d] \in {"insert", "done", "postpone", "fail"}, NextEvent(d),
         NEW out \in {"pending", "done", "dead"}, event' = [event EXCEPT ![current[d]] = out],
         overdue' = overdue \ {current[d]}, waiting' \subseteq Event,
         attempts' \in [Event -> Nat], mishaps' \in [Event -> Nat],
         \A e \in Event : e # current[d] => attempts'[e] = attempts[e] /\ mishaps'[e] = mishaps[e],
         mishaps'[current[d]] >= mishaps[current[d]], attempts'[current[d]] <= mishaps'[current[d]] + 1,
         out = "pending" => attempts'[current[d]] <= mishaps'[current[d]],
         out = "dead" => mishaps'[current[d]] >= MaxEventAttempts,
         out = "done" => current[d] \in skipped \/ Covered(current[d]),
         UNCHANGED <<sender, deriving, skipped, jobVars, faults>>
  PROVE IInv'
  <1> DEFINE x == current[d]
  <1>1. TypeOK /\ Ticks /\ Jobs /\ Consumed /\ Spent /\ Owned
    BY DEF IInv
  <1>2. /\ x \in Event /\ x \in batch[d]
        /\ pc' \in [Drainer -> {"idle", "reaped", "batch", "insert", "done", "postpone", "fail"}]
        /\ batch' \in [Drainer -> SUBSET Event] /\ current' \in [Drainer -> Event \cup {None}]
        /\ seen' \in [Drainer -> [Event -> Nat]]
        /\ batch'[d] = batch[d] \ {x} /\ current'[d] = None /\ pc'[d] \in {"idle", "batch"}
        /\ pc'[d] = "idle" => batch'[d] = {}
        /\ \A c \in Drainer : c # d => pc'[c] = pc[c] /\ batch'[c] = batch[c] /\ current'[c] = current[c]
        /\ \A c \in Drainer, e \in Event : seen'[c][e] = seen[c][e] \/ seen'[c][e] = 0
    BY NextEventTyped
  <1>3. event'[x] = out /\ (\A e \in Event : e # x => event'[e] = event[e])
        /\ event' \in [Event -> {"absent", "pending", "processing", "done", "dead"}]
    BY <1>1, <1>2 DEF TypeOK
  <1>4. event[x] # "absent"
    BY <1>1, <1>2 DEF Ticks
  <1>5. TypeOK'
    <2>1. \A c \in Drainer : (current'[c] # None => current'[c] \in batch'[c])
                             /\ (pc'[c] \in {"idle", "reaped"} => batch'[c] = {})
      BY <1>1, <1>2 DEF TypeOK
    <2> QED
      BY <1>1, <1>2, <1>3, <2>1 DEF TypeOK, jobVars
  <1>6. Ticks'
    BY <1>1, <1>2, <1>3, <1>4 DEF Ticks
  <1>7. Jobs' /\ \A e \in Event : Covered(e) => Covered(e)'
    BY <1>3, <1>4, EventSide
  <1>8. Consumed'
    <2>1. \A e \in Event : event'[e] = "done" /\ e \notin skipped => Covered(e)
      BY <1>1, <1>3 DEF Consumed
    <2>2. \A c \in Drainer : pc'[c] = "done" => c # d /\ pc[c] = "done" /\ current'[c] = current[c] /\ current[c] \in Event
      BY <1>1, <1>2 DEF Ticks, TypeOK
    <2>3. \A e \in Event : event'[e] = "done" /\ e \notin skipped' => Covered(e)'
      BY <1>7, <2>1
    <2>4. \A c \in Drainer : pc'[c] = "done" /\ current'[c] \notin skipped' => Covered(current[c])'
      <3> SUFFICES ASSUME NEW c \in Drainer, pc'[c] = "done", current'[c] \notin skipped' PROVE Covered(current[c])'
        OBVIOUS
      <3>1. PICK e \in Event : e = current[c]
        BY <2>2
      <3>2. Covered(current[c]) /\ current'[c] = current[c]
        BY <1>1, <2>2 DEF Consumed
      <3>3. Covered(e)'
        BY <1>7, <3>1, <3>2
      <3> QED
        BY <3>1, <3>2, <3>3 DEF Covered
    <2> QED
      BY <2>3, <2>4 DEF Consumed
  <1>9. Spent'
    <2> SUFFICES ASSUME NEW e \in Event
          PROVE /\ attempts'[e] <= mishaps'[e] + 1
                /\ event'[e] \in {"absent", "pending"} => attempts'[e] <= mishaps'[e]
                /\ \A c \in Drainer : seen'[c][e] <= mishaps'[e] + 1
                /\ event'[e] = "dead" => mishaps'[e] >= MaxEventAttempts
      BY DEF Spent
    <2>1. mishaps[e] \in Nat /\ mishaps'[e] \in Nat /\ mishaps'[e] >= mishaps[e]
      BY <1>1 DEF TypeOK
    <2>2. \A c \in Drainer : seen[c][e] \in Nat /\ seen[c][e] <= mishaps[e] + 1
      BY <1>1 DEF Spent, TypeOK
    <2>3. \A c \in Drainer : seen'[c][e] <= mishaps'[e] + 1
      BY <1>2, <2>1, <2>2
    <2>4. CASE e = x
      BY <1>3, <2>3, <2>4
    <2>5. CASE e # x
      BY <1>1, <1>3, <2>3, <2>5 DEF Spent
    <2> QED
      BY <2>4, <2>5
  <1>10. Owned'
    <2> SUFFICES ASSUME faults["slow"] = 0
          PROVE /\ \A c \in Drainer : \A e \in batch'[c] : event'[e] = "processing" /\ e \notin overdue'
                /\ \A b, c \in Drainer : b # c => batch'[b] \cap batch'[c] = {}
      BY DEF Owned
    <2>1. \A c \in Drainer : x \notin batch'[c] /\ batch'[c] \subseteq batch[c]
      BY <1>1, <1>2 DEF Owned
    <2>2. \A c \in Drainer : \A e \in batch'[c] : e \in Event /\ event[e] = "processing" /\ e \notin overdue
      BY <1>1, <1>2, <2>1 DEF Owned
    <2>3. \A c \in Drainer : \A e \in batch'[c] : event'[e] = "processing" /\ e \notin overdue'
      BY <1>3, <2>1, <2>2
    <2>4. \A b, c \in Drainer : b # c => batch'[b] \cap batch'[c] = {}
      BY <1>1, <2>1 DEF Owned
    <2> QED
      BY <2>3, <2>4
  <1> QED
    BY <1>5, <1>6, <1>7, <1>8, <1>9, <1>10 DEF IInv

(* MarkDone, Postpone and WriteFailure are outcomes. *)
LEMMA OutcomesInv ==
  ASSUME IInv, NEW d \in Drainer, MarkDone(d) \/ Postpone(d) \/ WriteFailure(d) PROVE IInv'
  <1> DEFINE x == current[d]
  <1>1. TypeOK /\ Ticks /\ Consumed /\ Spent
    BY DEF IInv
  <1>2. pc[d] \in {"insert", "done", "postpone", "fail"} /\ NextEvent(d) /\ overdue' = overdue \ {x}
        /\ UNCHANGED <<sender, deriving, skipped, jobVars, faults>>
    BY DEF MarkDone, Postpone, WriteFailure
  <1>3. x \in Event /\ x \in batch[d]
    BY <1>1, <1>2 DEF Ticks, TypeOK
  <1>4. /\ attempts \in [Event -> Nat] /\ mishaps \in [Event -> Nat] /\ seen[d][x] \in Nat /\ attempts[x] \in Nat
        /\ mishaps[x] \in Nat /\ attempts[x] <= mishaps[x] + 1 /\ seen[d][x] <= mishaps[x] + 1 /\ waiting \subseteq Event
    BY <1>1, <1>3 DEF TypeOK, Spent
  <1>5. CASE MarkDone(d)
    <2>1. event' = [event EXCEPT ![x] = "done"] /\ UNCHANGED <<attempts, mishaps, waiting>>
      BY <1>5 DEF MarkDone
    <2>2. x \in skipped \/ Covered(x)
      BY <1>1, <1>5 DEF Consumed, MarkDone
    <2>3. /\ waiting' \subseteq Event /\ attempts' \in [Event -> Nat] /\ mishaps' \in [Event -> Nat]
          /\ \A e \in Event : e # x => attempts'[e] = attempts[e] /\ mishaps'[e] = mishaps[e]
          /\ mishaps'[x] >= mishaps[x] /\ attempts'[x] <= mishaps'[x] + 1
      BY <1>4, <2>1
    <2> QED
      BY <1>2, <2>1, <2>2, <2>3, Outcome
  <1>6. CASE Postpone(d)
    <2>1. /\ event' = [event EXCEPT ![x] = "pending"] /\ UNCHANGED mishaps /\ waiting' = waiting \cup {x}
          /\ attempts' = [attempts EXCEPT ![x] = IF @ > 0 THEN @ - 1 ELSE 0]
      BY <1>6 DEF Postpone
    <2>2. attempts' \in [Event -> Nat] /\ attempts'[x] <= mishaps'[x] /\ \A e \in Event : e # x => attempts'[e] = attempts[e]
      BY <1>3, <1>4, <2>1
    <2>3. /\ waiting' \subseteq Event /\ mishaps' \in [Event -> Nat]
          /\ \A e \in Event : e # x => attempts'[e] = attempts[e] /\ mishaps'[e] = mishaps[e]
          /\ mishaps'[x] >= mishaps[x] /\ attempts'[x] <= mishaps'[x] + 1
      <3>1. attempts'[x] \in Nat
        BY <1>3, <2>2
      <3> QED
        BY <1>3, <1>4, <2>1, <2>2, <3>1
    <2> QED
      BY <1>2, <2>1, <2>2, <2>3, Outcome
  <1>7. CASE WriteFailure(d)
    <2>1. /\ event' = [event EXCEPT ![x] = IF seen[d][x] >= MaxEventAttempts THEN "dead" ELSE "pending"]
          /\ UNCHANGED attempts /\ waiting' = waiting \cup {x}
          /\ mishaps' = [mishaps EXCEPT ![x] = @ + 1]
      BY <1>7 DEF WriteFailure
    <2>2. mishaps' \in [Event -> Nat] /\ mishaps'[x] = mishaps[x] + 1 /\ \A e \in Event : e # x => mishaps'[e] = mishaps[e]
      BY <1>3, <1>4, <2>1
    <2>3. /\ waiting' \subseteq Event /\ attempts' \in [Event -> Nat]
          /\ \A e \in Event : e # x => attempts'[e] = attempts[e] /\ mishaps'[e] = mishaps[e]
          /\ mishaps'[x] >= mishaps[x] /\ attempts'[x] <= mishaps'[x] /\ attempts'[x] <= mishaps'[x] + 1
      <3>1. attempts'[x] = attempts[x]
        BY <2>1
      <3> QED
        BY <1>3, <1>4, <2>1, <2>2, <3>1
    <2>4. CASE seen[d][x] >= MaxEventAttempts
      <3>1. event' = [event EXCEPT ![x] = "dead"]
        BY <2>1, <2>4
      <3>2. MaxEventAttempts \in Nat
        BY BatchAssumption
      <3>3. mishaps'[x] >= MaxEventAttempts
        BY <1>4, <2>2, <2>4, <3>2
      <3> QED
        BY <1>2, <2>2, <2>3, <3>1, <3>3, Outcome
    <2>5. CASE ~(seen[d][x] >= MaxEventAttempts)
      <3>1. event' = [event EXCEPT ![x] = "pending"]
        BY <2>1, <2>5
      <3> QED
        BY <1>2, <2>2, <2>3, <3>1, Outcome
    <2> QED
      BY <2>4, <2>5
  <1> QED
    BY <1>5, <1>6, <1>7

(* TickFails and Crash: the batch is nobody's until it is overdue. *)
LEMMA AbandonInv == ASSUME IInv, NEW d \in Drainer, TickFails(d) \/ Crash(d) PROVE IInv'
  <1> USE DEF eventVars, jobVars
  <1>0. Abandon(d) /\ (Suffer("crash") \/ Suffer("failure"))
    BY DEF TickFails, Crash
  <1>1. TypeOK /\ Ticks /\ Jobs /\ Consumed /\ Spent /\ Owned
    BY DEF IInv
  <1>2. /\ faults' \in [Fault -> Nat] /\ \A g \in Fault : faults'[g] <= Bound[g]
        /\ faults'["slow"] = 0 => faults["slow"] = 0
    <2>1. "crash" \in Fault /\ "failure" \in Fault
      BY DEF Fault, Bound
    <2> QED
      BY <1>0, <1>1, <2>1, Faults
  <1>3. /\ pc'[d] = "idle" /\ batch'[d] = {} /\ current'[d] = None
        /\ \A c \in Drainer : c # d => pc'[c] = pc[c] /\ batch'[c] = batch[c] /\ current'[c] = current[c]
        /\ seen' \in [Drainer -> [Event -> Nat]]
        /\ \A c \in Drainer, e \in Event : seen'[c][e] = seen[c][e] \/ seen'[c][e] = 0
    BY <1>0, <1>1 DEF Abandon, TypeOK
  <1>4. TypeOK'
    <2>1. \A c \in Drainer : (current'[c] # None => current'[c] \in batch'[c])
                             /\ (pc'[c] \in {"idle", "reaped"} => batch'[c] = {})
      BY <1>1, <1>3 DEF TypeOK
    <2> QED
      BY <1>0, <1>1, <1>2, <1>3, <2>1 DEF TypeOK, Abandon
  <1>5. Ticks'
    BY <1>0, <1>1, <1>3 DEF Ticks, Abandon
  <1>6. Jobs' /\ \A e \in Event : Covered(e) => Covered(e)'
    BY <1>0, EventSide DEF Abandon
  <1>7. Consumed'
    BY <1>0, <1>3, <1>6, StaysConsumed DEF Abandon
  <1>8. Spent'
    <2>1. \A e \in Event : mishaps[e] \in Nat
      BY <1>1 DEF TypeOK
    <2> QED
      BY <1>0, <1>1, <1>3, <2>1 DEF Spent, Abandon
  <1>9. Owned'
    BY <1>0, <1>1, <1>2, <1>3 DEF Owned, Abandon
  <1> QED
    BY <1>4, <1>5, <1>6, <1>7, <1>8, <1>9 DEF IInv

-----------------------------------------------------------------------------
(* InsertJob: the job of an event covers it, whether it is new or not. *)
LEMMA InsertJobInv == ASSUME IInv, NEW d \in Drainer, InsertJob(d) PROVE IInv'
  <1> DEFINE e == current[d]
  <1>0. /\ pc[d] = "insert" /\ pc' = [pc EXCEPT ![d] = "done"]
        /\ UNCHANGED <<eventVars, batch, current, seen, faults>>
    BY DEF InsertJob
  <1>1. TypeOK /\ Ticks /\ Jobs /\ Consumed /\ Spent /\ Owned
    BY DEF IInv
  <1>2. e \in Event /\ event[e] # "absent" /\ sender[e] \in Contact
    BY <1>0, <1>1 DEF Ticks, Jobs, TypeOK
  <1>3. pc'[d] = "done" /\ \A c \in Drainer : c # d => pc'[c] = pc[c]
    BY <1>0, <1>1 DEF TypeOK
  <1>4. CASE phase[e] # "absent" /\ UNCHANGED jobVars
    <2>1. TypeOK'
      BY <1>0, <1>1, <1>3, <1>4 DEF TypeOK, jobVars, eventVars
    <2>2. Jobs' /\ \A x \in Event : Covered(x) => Covered(x)'
      BY <1>0, <1>4, EventSide DEF eventVars
    <2>3. Covered(e)
      BY <1>1, <1>2, <1>4 DEF Jobs, Covered
    <2>4. Consumed'
      BY <1>0, <1>1, <1>3, <1>4, <2>3 DEF Consumed, Covered, eventVars, jobVars
    <2>5. Ticks' /\ Spent' /\ Owned'
      BY <1>0, <1>1, <1>3 DEF Ticks, Spent, Owned, eventVars
    <2> QED
      BY <2>1, <2>2, <2>4, <2>5 DEF IInv
  <1>5. CASE phase[e] = "absent" /\ Queue!Accept(e, sender[e]) /\ later' = later \cup {e}
             /\ fresh' = fresh \cup {e} /\ UNCHANGED <<held, turnVars>>
    <2>1. /\ phase' = [phase EXCEPT ![e] = "waiting"] /\ lane' = [lane EXCEPT ![e] = sender[e]]
          /\ UNCHANGED alerted
      <3>1. PICK c \in Contact : c = sender[e]
        BY <1>2
      <3>2. PICK x \in Event : x = e
        BY <1>2
      <3>3. Queue!Accept(x, c)
        BY <1>5, <3>1, <3>2
      <3>4. phase' = [phase EXCEPT ![x] = "waiting"] /\ lane' = [lane EXCEPT ![x] = c] /\ UNCHANGED alerted
        BY <3>3 DEF Queue!Accept
      <3> QED
        BY <3>1, <3>2, <3>4
    <2>2. /\ phase'[e] = "waiting" /\ lane'[e] = sender[e]
          /\ \A j \in Event : j # e => phase'[j] = phase[j] /\ lane'[j] = lane[j]
      BY <1>1, <1>2, <2>1 DEF TypeOK
    <2>3. TypeOK'
      BY <1>0, <1>1, <1>2, <1>3, <1>5, <2>1 DEF TypeOK, eventVars
    <2>4. Jobs'
      BY <1>0, <1>1, <1>2, <1>5, <2>2 DEF Jobs, eventVars
    <2>5. \A x \in Event : Covered(x) => Covered(x)'
      BY <1>0, <1>5, <2>2 DEF Covered, eventVars
    <2>6. Covered(e)'
      BY <1>0, <1>2, <2>2 DEF Covered, eventVars
    <2>7. Consumed'
      <3>1. \A x \in Event : event'[x] = "done" /\ x \notin skipped' => Covered(x)'
        BY <1>0, <1>1, <2>5 DEF Consumed, eventVars
      <3>2. \A c \in Drainer : pc'[c] = "done" /\ current'[c] \notin skipped' => Covered(current[c])'
        <4> SUFFICES ASSUME NEW c \in Drainer, pc'[c] = "done", current'[c] \notin skipped' PROVE Covered(current[c])'
          OBVIOUS
        <4>1. CASE c = d
          BY <2>6, <4>1
        <4>2. CASE c # d
          <5>1. Covered(current[c]) /\ current[c] \in Event
            BY <1>0, <1>1, <1>3, <4>2 DEF Consumed, Ticks, TypeOK, eventVars
          <5>2. PICK x \in Event : x = current[c]
            BY <5>1
          <5>3. Covered(x)'
            BY <2>5, <5>1, <5>2
          <5> QED
            BY <1>0, <5>2, <5>3 DEF Covered
        <4> QED
          BY <4>1, <4>2
      <3> QED
        BY <3>1, <3>2 DEF Consumed
    <2>8. Ticks' /\ Spent' /\ Owned'
      BY <1>0, <1>1, <1>3 DEF Ticks, Spent, Owned, eventVars
    <2> QED
      BY <2>3, <2>4, <2>7, <2>8 DEF IInv
  <1> QED
    BY <1>4, <1>5 DEF InsertJob

-----------------------------------------------------------------------------
(* Time. *)
LEMMA TimeInv ==
  ASSUME IInv, NEW e \in Event, EventDue(e) \/ EventOverdue(e) \/ Derived(e) PROVE IInv'
  <1> USE DEF tickVars, jobVars
  <1>1. TypeOK /\ Ticks /\ Jobs /\ Consumed /\ Spent /\ Owned
    BY DEF IInv
  <1>2. /\ UNCHANGED <<event, sender, attempts, skipped, mishaps, tickVars, jobVars>>
        /\ waiting' \subseteq Event /\ overdue' \subseteq Event /\ deriving' \subseteq Event
        /\ UNCHANGED faults \/ Suffer("slow")
    BY <1>1 DEF EventDue, EventOverdue, Derived, TypeOK
  <1>3. /\ faults' \in [Fault -> Nat] /\ \A g \in Fault : faults'[g] <= Bound[g]
        /\ faults'["slow"] = 0 => faults["slow"] = 0 /\ ~Suffer("slow")
    <2>1. "slow" \in Fault
      BY DEF Fault, Bound
    <2> QED
      BY <1>1, <1>2, <2>1, Faults
  <1>4. TypeOK'
    BY <1>1, <1>2, <1>3 DEF TypeOK
  <1>5. Ticks' /\ Spent'
    BY <1>1, <1>2 DEF Ticks, Spent
  <1>6. Jobs' /\ \A x \in Event : Covered(x) => Covered(x)'
    BY <1>2, EventSide
  <1>7. Consumed'
    BY <1>2, <1>6, StaysConsumed
  <1>8. Owned'
    <2>1. ~Suffer("slow") => \A d \in Drainer : \A x \in batch[d] : x \in overdue' => x \in overdue
      BY DEF EventDue, EventOverdue, Derived
    <2> QED
      BY <1>1, <1>2, <1>3, <2>1 DEF Owned
  <1> QED
    BY <1>4, <1>5, <1>6, <1>7, <1>8 DEF IInv

(* What a step of the queue does to a job: nothing, a lease that has read  *)
(* nothing, the reading, or an end by which nobody loses a message.        *)
JobStep(j) ==
  \/ read'[j] = read[j] /\ phase'[j] = phase[j] /\ (j \in opening' <=> j \in opening)
  \/ phase[j] = "waiting" /\ phase'[j] = "leased" /\ j \in opening'
  \/ phase[j] # "absent" /\ phase'[j] # "absent" /\ read'[j] = Messages(lane[j])
  \/ phase[j] = "leased" /\ phase'[j] # "absent" /\ j \notin opening /\ read'[j] = read[j]
  \/ phase[j] = "leased" /\ phase'[j] = "waiting"
  \/ j \in opening /\ phase'[j] # "absent" /\ Messages(lane[j]) \subseteq handed'

(* Steps of the queue: every turn reads what its contact wrote so far or   *)
(* leaves it to a person, so what covered a message still does.            *)
LEMMA QueueStep ==
  ASSUME IInv, UNCHANGED <<eventVars, tickVars, lane>>,
         UNCHANGED faults \/ \E f \in Fault : Suffer(f),
         phase' \in [Event -> {"absent", "waiting", "leased", "done", "failed", "dead"}],
         alerted' \subseteq Event, later' \subseteq Event, held' \subseteq Event, fresh' \subseteq later',
         read' \in [Event -> SUBSET Event], opening' \subseteq Event,
         handed \subseteq handed', handed' \subseteq Event,
         \A j \in later' : phase'[j] = "waiting",
         \A j \in opening' : phase'[j] = "leased",
         \A j \in Event : JobStep(j)
  PROVE IInv'
  <1> USE DEF eventVars, tickVars
  <1>1. TypeOK /\ Ticks /\ Jobs /\ Consumed
    BY DEF IInv
  <1>2. /\ faults' \in [Fault -> Nat] /\ \A g \in Fault : faults'[g] <= Bound[g]
        /\ faults'["slow"] = 0 => faults["slow"] = 0
    BY <1>1, Faults
  <1>3. TypeOK'
    BY <1>1, <1>2 DEF TypeOK
  <1>4. Ticks' /\ Spent' /\ Owned'
    BY <1>2, JobSide
  <1>5. Jobs'
    <2> SUFFICES ASSUME NEW j \in Event
          PROVE /\ event[j] # "absent" => sender[j] # None
                /\ phase'[j] = "absent" => lane[j] = None
                /\ phase'[j] # "absent" => event[j] # "absent" /\ lane[j] = sender[j]
                /\ phase'[j] \notin {"absent", "waiting"} => j \in opening' \cup read'[j] \cup handed'
                /\ j \in later' => phase'[j] = "waiting"
                /\ j \in opening' => phase'[j] = "leased"
      BY DEF Jobs
    <2>1. phase[j] = "absent" <=> phase'[j] = "absent"
      BY <1>1 DEF JobStep, Jobs
    <2>2. phase[j] # "absent" => j \in Messages(lane[j])
      BY <1>1 DEF Jobs, Messages
    <2>3. phase'[j] \notin {"absent", "waiting"} => j \in opening' \cup read'[j] \cup handed'
      BY <1>1, <2>1, <2>2 DEF JobStep, Jobs
    <2> QED
      BY <1>1, <2>1, <2>3 DEF Jobs
  <1>6. \A e \in Event : Covered(e) /\ event[e] # "absent" => Covered(e)'
    <2> SUFFICES ASSUME NEW e \in Event, Covered(e), event[e] # "absent", e \notin handed PROVE Covered(e)'
      BY DEF Covered
    <2>1. PICK j \in Event : /\ lane[j] = sender[e] /\ phase[j] # "absent"
                             /\ phase[j] = "waiting" \/ j \in opening \/ e \in read[j]
      BY DEF Covered
    <2>2. e \in Messages(lane[j])
      BY <2>1 DEF Messages
    <2>3. j \in opening => phase[j] = "leased"
      BY <1>1 DEF Jobs
    <2>4. e \in handed' \/ (phase'[j] # "absent" /\ (phase'[j] = "waiting" \/ j \in opening' \/ e \in read'[j]))
      BY <2>1, <2>2, <2>3 DEF JobStep
    <2> QED
      BY <2>1, <2>4 DEF Covered
  <1>7. Consumed'
    <2>1. \A d \in Drainer : pc[d] = "done" => current[d] \in Event /\ event[current[d]] # "absent"
      BY <1>1 DEF Ticks, TypeOK
    <2>2. \A e \in Event : event'[e] = "done" /\ e \notin skipped' => Covered(e)'
      BY <1>1, <1>6 DEF Consumed
    <2>3. \A d \in Drainer : pc'[d] = "done" /\ current'[d] \notin skipped' => Covered(current[d])'
      <3> SUFFICES ASSUME NEW d \in Drainer, pc[d] = "done", current[d] \notin skipped PROVE Covered(current[d])'
        OBVIOUS
      <3>1. PICK e \in Event : e = current[d] /\ event[e] # "absent"
        BY <2>1
      <3>2. Covered(e)'
        BY <1>1, <1>6, <3>1 DEF Consumed
      <3> QED
        BY <3>1, <3>2 DEF Covered
    <2> QED
      BY <2>2, <2>3 DEF Consumed
  <1> QED
    BY <1>3, <1>4, <1>5, <1>7 DEF IInv

(* JobDue, HoldJobs and ReleaseHolds. *)
LEMMA WaitInv ==
  ASSUME IInv, (\E j \in Event : JobDue(j)) \/ HoldJobs \/ ReleaseHolds PROVE IInv'
  <1>1. TypeOK /\ Jobs
    BY DEF IInv
  <1>2. /\ UNCHANGED <<eventVars, tickVars, phase, lane, alerted, opening, read, handed>>
        /\ later' \subseteq later /\ held' \subseteq Event /\ fresh' \subseteq later'
    BY <1>1 DEF JobDue, HoldJobs, ReleaseHolds, Waits, TypeOK
  <1>3. UNCHANGED faults \/ \E f \in Fault : Suffer(f)
    <2>1. "hold" \in Fault
      BY DEF Fault, Bound
    <2> QED
      BY <2>1 DEF JobDue, HoldJobs, ReleaseHolds
  <1>4. \A j \in later' : phase'[j] = "waiting"
    BY <1>1, <1>2 DEF Jobs, TypeOK
  <1>5. /\ phase' \in [Event -> {"absent", "waiting", "leased", "done", "failed", "dead"}]
        /\ alerted' \subseteq Event /\ later' \subseteq Event /\ read' \in [Event -> SUBSET Event]
        /\ opening' \subseteq Event /\ handed' \subseteq Event
    BY <1>1, <1>2 DEF TypeOK
  <1>6. (\A j \in Event : JobStep(j)) /\ \A j \in opening' : phase'[j] = "leased"
    BY <1>1, <1>2 DEF JobStep, Jobs, TypeOK
  <1> QED
    BY <1>2, <1>3, <1>4, <1>5, <1>6, QueueStep

(* StartTurn: nothing is read yet. *)
LEMMA StartInv == ASSUME IInv, NEW j \in Event, StartTurn(j) PROVE IInv'
  <1>1. TypeOK /\ Jobs
    BY DEF IInv
  <1>2. /\ phase[j] = "waiting" /\ j \notin later
        /\ phase' = [k \in Event |-> IF k \in {j} THEN "leased" ELSE phase[k]]
        /\ read' = [read EXCEPT ![j] = {}] /\ opening' = opening \cup {j}
        /\ UNCHANGED <<eventVars, tickVars, lane, alerted, later, held, fresh, handed, faults>>
    BY DEF StartTurn, Queue!Grant
  <1>3. /\ phase'[j] = "leased"
        /\ \A k \in Event : k # j => phase'[k] = phase[k] /\ read'[k] = read[k]
        /\ phase' \in [Event -> {"absent", "waiting", "leased", "done", "failed", "dead"}]
        /\ read' \in [Event -> SUBSET Event]
    BY <1>1, <1>2 DEF TypeOK
  <1>4. /\ alerted' \subseteq Event /\ later' \subseteq Event /\ held' \subseteq Event /\ fresh' \subseteq later'
        /\ opening' \subseteq Event /\ handed' \subseteq Event
        /\ \A k \in later' : phase'[k] = "waiting"
        /\ \A k \in opening' : phase'[k] = "leased"
    BY <1>1, <1>2, <1>3 DEF TypeOK, Jobs
  <1>5. \A k \in Event : JobStep(k)
    BY <1>2, <1>3 DEF JobStep
  <1> QED
    BY <1>2, <1>3, <1>4, <1>5, QueueStep

(* ReadHistory. *)
LEMMA ReadInv == ASSUME IInv, NEW j \in Event, ReadHistory(j) PROVE IInv'
  <1>1. TypeOK /\ Jobs
    BY DEF IInv
  <1>2. /\ j \in opening /\ opening' = opening \ {j}
        /\ read' = [read EXCEPT ![j] = Messages(lane[j])]
        /\ UNCHANGED <<eventVars, tickVars, phase, lane, alerted, later, held, fresh, handed, faults>>
    BY DEF ReadHistory
  <1>3. phase[j] = "leased" /\ Messages(lane[j]) \subseteq Event
    BY <1>1, <1>2 DEF Jobs, Messages
  <1>4. /\ read'[j] = Messages(lane[j]) /\ read' \in [Event -> SUBSET Event]
        /\ \A k \in Event : k # j => read'[k] = read[k]
    BY <1>1, <1>2, <1>3 DEF TypeOK
  <1>5. /\ phase' \in [Event -> {"absent", "waiting", "leased", "done", "failed", "dead"}]
        /\ alerted' \subseteq Event /\ later' \subseteq Event /\ held' \subseteq Event /\ fresh' \subseteq later'
        /\ opening' \subseteq Event /\ handed' \subseteq Event
    BY <1>1, <1>2 DEF TypeOK
  <1>6. (\A k \in later' : phase'[k] = "waiting") /\ \A k \in opening' : phase'[k] = "leased"
    BY <1>1, <1>2 DEF TypeOK, Jobs
  <1>7. \A k \in Event : JobStep(k)
    BY <1>2, <1>3, <1>4 DEF JobStep
  <1> QED
    BY <1>2, <1>4, <1>5, <1>6, <1>7, QueueStep

(* EndUnread, SettleTurn and ReturnTurn: a lease ends. *)
LEMMA EndInv ==
  ASSUME IInv, NEW j \in Event, NEW verdict \in {"done", "failed", "dead", "waiting"},
         phase[j] = "leased", Queue!Release([phase EXCEPT ![j] = verdict]),
         later' = later \/ (verdict = "waiting" /\ later' = later \cup {j}),
         UNCHANGED faults \/ \E f \in Fault : Suffer(f),
         opening' = opening \ {j}, handed \subseteq handed', handed' \subseteq Event,
         j \in opening => verdict = "waiting" \/ Messages(lane[j]) \subseteq handed',
         UNCHANGED <<eventVars, tickVars, held, read, fresh>>
  PROVE IInv'
  <1>1. TypeOK /\ Jobs
    BY DEF IInv
  <1>2. PICK out : out = [phase EXCEPT ![j] = verdict]
    OBVIOUS
  <1>3. /\ phase' = [phase EXCEPT ![j] = verdict]
        /\ alerted' = alerted \cup {k \in Event : phase[k] = "leased" /\ out[k] = "dead"}
        /\ UNCHANGED lane
    <2>1. Queue!Release(out)
      BY <1>2
    <2>2. /\ phase' = out /\ UNCHANGED lane
          /\ alerted' = alerted \cup {k \in Queue!Leased : out[k] = "dead"}
      BY <2>1 DEF Queue!Release
    <2> QED
      BY <1>2, <2>2 DEF Queue!Leased
  <1>4. /\ phase'[j] = verdict /\ \A k \in Event : k # j => phase'[k] = phase[k]
        /\ phase' \in [Event -> {"absent", "waiting", "leased", "done", "failed", "dead"}]
    BY <1>1, <1>3 DEF TypeOK
  <1>5. /\ alerted' \subseteq Event /\ later' \subseteq Event /\ held' \subseteq Event /\ fresh' \subseteq later'
        /\ read' \in [Event -> SUBSET Event] /\ \A k \in later' : phase'[k] = "waiting"
        /\ opening' \subseteq Event /\ \A k \in opening' : phase'[k] = "leased"
    BY <1>1, <1>3, <1>4 DEF TypeOK, Jobs
  <1>6. \A k \in Event : JobStep(k)
    <2> SUFFICES ASSUME NEW k \in Event PROVE JobStep(k)
      OBVIOUS
    <2>1. read'[k] = read[k] /\ (k # j => (k \in opening' <=> k \in opening))
      OBVIOUS
    <2>2. CASE k = j
      BY <1>4, <2>1, <2>2 DEF JobStep
    <2>3. CASE k # j
      BY <1>4, <2>1, <2>3 DEF JobStep
    <2> QED
      BY <2>2, <2>3
  <1> QED
    BY <1>3, <1>4, <1>5, <1>6, QueueStep

LEMMA TurnEnds ==
  ASSUME IInv, NEW j \in Event,
         \/ \E verdict \in Queue!Verdict : EndUnread(j, verdict) \/ SettleTurn(j, verdict)
         \/ \E rescheduled \in BOOLEAN : ReturnTurn(j, rescheduled)
  PROVE IInv'
  <1>0. TypeOK /\ Jobs /\ handed \subseteq Event /\ Messages(lane[j]) \subseteq Event
    BY DEF IInv, TypeOK, Messages
  <1>1. CASE \E verdict \in Queue!Verdict : SettleTurn(j, verdict)
    <2>1. PICK verdict \in Queue!Verdict : SettleTurn(j, verdict)
      BY <1>1
    <2>2. verdict \in {"done", "failed", "dead", "waiting"}
      BY DEF Queue!Verdict
    <2>3. /\ phase[j] = "leased" /\ j \notin opening /\ Queue!Release([phase EXCEPT ![j] = verdict])
          /\ UNCHANGED <<eventVars, tickVars, later, held, read, fresh, opening, handed, faults>>
      BY <2>1 DEF SettleTurn
    <2>4. opening' = opening \ {j}
      BY <2>3
    <2> QED
      BY <1>0, <2>2, <2>3, <2>4, EndInv
  <1>2. CASE \E verdict \in Queue!Verdict : EndUnread(j, verdict)
    <2>1. PICK verdict \in Queue!Verdict : EndUnread(j, verdict)
      BY <1>2
    <2>2. verdict \in {"done", "failed", "dead", "waiting"}
      BY DEF Queue!Verdict
    <2>3. /\ j \in opening /\ Queue!Release([phase EXCEPT ![j] = verdict])
          /\ opening' = opening \ {j} /\ handed' = handed \cup Messages(lane[j])
          /\ UNCHANGED <<eventVars, tickVars, later, held, read, fresh, faults>>
      BY <2>1 DEF EndUnread
    <2>4. phase[j] = "leased"
      BY <1>0, <2>3 DEF Jobs
    <2> QED
      BY <1>0, <2>2, <2>3, <2>4, EndInv
  <1>3. CASE \E rescheduled \in BOOLEAN : ReturnTurn(j, rescheduled)
    <2>1. "return" \in Fault
      BY DEF Fault, Bound
    <2>2. /\ phase[j] = "leased" /\ Queue!Release([phase EXCEPT ![j] = "waiting"]) /\ Suffer("return")
          /\ later' = later \/ later' = later \cup {j}
          /\ opening' = opening \ {j}
          /\ UNCHANGED <<eventVars, tickVars, held, read, fresh, handed>>
      BY <1>3 DEF ReturnTurn
    <2> QED
      BY <1>0, <2>1, <2>2, EndInv
  <1> QED
    BY <1>1, <1>2, <1>3

-----------------------------------------------------------------------------
(* Every step keeps the invariant. *)
LEMMA NextInv == IInv /\ [Next]_vars => IInv'
  <1> SUFFICES ASSUME IInv, [Next]_vars PROVE IInv'
    OBVIOUS
  <1>1. CASE UNCHANGED vars
    <2>1. TypeOK /\ Ticks /\ Jobs /\ Consumed /\ Spent /\ Owned
      BY DEF IInv
    <2>2. TypeOK'
      BY <1>1, <2>1 DEF TypeOK, vars, eventVars, tickVars, jobVars
    <2>3. Ticks' /\ Jobs' /\ Spent' /\ Owned'
      BY <1>1, <2>1 DEF Ticks, Jobs, Spent, Owned, vars, eventVars, tickVars, jobVars
    <2>4. Consumed'
      BY <1>1, <2>1 DEF Consumed, Covered, vars, eventVars, tickVars, jobVars
    <2> QED
      BY <2>2, <2>3, <2>4 DEF IInv
  <1>2. CASE \E e \in Event, c \in Contact, media \in BOOLEAN : Receive(e, c, media)
    BY <1>2, ReceiveInv
  <1>3. CASE \E d \in Drainer : TickStep(d)
    BY <1>3, ReapInv, ClaimInv, ExamineInv, InsertJobInv, OutcomesInv DEF TickStep, Process
  <1>4. CASE \E d \in Drainer, e \in Event : StatementFails(d, e)
    BY <1>4, StatementFailsInv
  <1>5. CASE \E d \in Drainer : TickFails(d) \/ Crash(d)
    BY <1>5, AbandonInv
  <1>6. CASE \E e \in Event : EventDue(e) \/ EventOverdue(e) \/ Derived(e)
    BY <1>6, TimeInv
  <1>7. CASE (\E j \in Event : JobDue(j)) \/ HoldJobs \/ ReleaseHolds
    BY <1>7, WaitInv
  <1>8. CASE \E j \in Event : StartTurn(j) \/ ReadHistory(j)
    BY <1>8, StartInv, ReadInv
  <1>9. CASE \/ \E j \in Event, verdict \in Queue!Verdict :
                  EndUnread(j, verdict) \/ SettleTurn(j, verdict)
             \/ \E j \in Event, rescheduled \in BOOLEAN : ReturnTurn(j, rescheduled)
    BY <1>9, TurnEnds
  <1> QED
    BY <1>1, <1>2, <1>3, <1>4, <1>5, <1>6, <1>7, <1>8, <1>9 DEF Next

LEMMA Invariance == Spec => []IInv
  BY InitInv, NextInv, PTL DEF Spec

(* Types: every variable of the drain keeps its range, and an idle tick    *)
(* has no batch.                                                           *)
THEOREM TypeCorrect == Spec => []TypeOK
  <1>1. IInv => TypeOK
    BY DEF IInv
  <1> QED
    BY <1>1, Invariance, PTL

(* No message is dropped, however ticks, turns, holds, crashes and reaps   *)
(* interleave: a consumed event was read by a turn, will be, or a person   *)
(* has it.                                                                 *)
THEOREM NoMessageDropped == Spec => []MessagesCovered
  <1>1. IInv => MessagesCovered
    BY DEF IInv, Consumed, Covered, MessagesCovered
  <1> QED
    BY <1>1, Invariance, PTL

(* The budget of an event is spent by mishaps alone: waiting for media to  *)
(* be transcribed never kills it.                                          *)
THEOREM BudgetIsForMishaps == Spec => []DeadOnlyAfterMishaps
  <1>1. IInv => DeadOnlyAfterMishaps
    BY DEF IInv, Spent, DeadOnlyAfterMishaps
  <1> QED
    BY <1>1, Invariance, PTL

(* While no tick is slower than the reaper's timeout, every claimed event  *)
(* has one process that works on it.                                       *)
THEOREM ClaimsAreExclusive == Spec => []OneOwner
  <1>1. IInv => OneOwner
    BY DEF IInv, Owned, OneOwner
  <1> QED
    BY <1>1, Invariance, PTL

-----------------------------------------------------------------------------
(* With one drain, nobody can give the contact a job between the           *)
(* coalescing query and the insert.                                        *)
Burst ==
  /\ OneJobPerBurst
  /\ \A d \in Drainer : pc[d] = "insert" => \A j \in fresh : lane[j] # sender[current[d]]

LEMMA BurstNext ==
  ASSUME \A c, d \in Drainer : c = d, IInv, Burst, [Next]_vars PROVE Burst'
  <1>1. TypeOK /\ Ticks /\ Jobs
    BY DEF IInv
  <1>2. \A j \in fresh : j \in Event /\ j \in later /\ phase[j] = "waiting" /\ event[j] # "absent" /\ lane[j] = sender[j]
    BY <1>1 DEF TypeOK, Jobs
  <1>3. \A d \in Drainer : pc[d] = "insert" => current[d] \in Event /\ event[current[d]] # "absent"
    BY <1>1 DEF TypeOK, Ticks
  <1>4. CASE \E d \in Drainer : InsertJob(d)
    <2>1. PICK d \in Drainer : InsertJob(d)
      BY <1>4
    <2>2. pc'[d] = "done" /\ pc[d] = "insert"
      BY <1>1, <2>1 DEF InsertJob, TypeOK
    <2>3. \A c \in Drainer : pc'[c] # "insert"
      BY <2>2
    <2>4. CASE UNCHANGED jobVars
      BY <2>3, <2>4 DEF Burst, OneJobPerBurst, jobVars
    <2>5. CASE Queue!Accept(current[d], sender[current[d]]) /\ fresh' = fresh \cup {current[d]}
      <3>1. PICK x \in Event : x = current[d] /\ event[x] # "absent"
        BY <1>3, <2>2
      <3>2. PICK c \in Contact : c = sender[x]
        BY <1>1, <3>1 DEF TypeOK, Jobs
      <3>3. Queue!Accept(x, c)
        BY <2>5, <3>1, <3>2
      <3>4. lane' = [lane EXCEPT ![x] = c] /\ phase[x] = "absent"
        BY <3>3 DEF Queue!Accept
      <3>5. x \notin fresh /\ lane'[x] = c /\ \A j \in fresh : lane'[j] = lane[j] /\ lane[j] # c
        BY <1>1, <1>2, <2>2, <3>1, <3>2, <3>4 DEF Burst, TypeOK
      <3> QED
        BY <2>3, <2>5, <3>1, <3>5 DEF Burst, OneJobPerBurst
    <2> QED
      BY <2>1, <2>4, <2>5 DEF InsertJob
  <1>5. CASE \E d \in Drainer, e \in Event, nobody \in BOOLEAN : Examine(d, e, nobody)
    <2>1. PICK d \in Drainer, e \in Event, nobody \in BOOLEAN : Examine(d, e, nobody)
      BY <1>5
    <2>2. UNCHANGED <<sender, fresh, lane>> /\ current'[d] = e
      BY <1>1, <2>1 DEF Examine, jobVars, TypeOK
    <2>3. pc'[d] = "insert" => ~RidesAlong(e)
      BY <1>1, <2>1 DEF Examine, TypeOK
    <2>4. ~RidesAlong(e) => \A j \in fresh : lane[j] # sender[e]
      BY <1>2 DEF RidesAlong
    <2>5. \A c \in Drainer : pc'[c] = "insert" => \A j \in fresh' : lane'[j] # sender'[current'[c]]
      BY <2>2, <2>3, <2>4
    <2> QED
      BY <2>2, <2>5 DEF Burst, OneJobPerBurst
  <1>6. CASE \E e \in Event, c \in Contact, media \in BOOLEAN : Receive(e, c, media)
    <2>1. PICK e \in Event, c \in Contact, media \in BOOLEAN : Receive(e, c, media)
      BY <1>6
    <2>2. UNCHANGED <<fresh, lane, pc, current>> /\ event[e] = "absent"
          /\ \A x \in Event : x # e => sender'[x] = sender[x]
      BY <1>1, <2>1, NextIsAbsent DEF Receive, jobVars, tickVars, TypeOK
    <2> QED
      BY <1>2, <1>3, <2>2 DEF Burst, OneJobPerBurst
  <1>7. ASSUME fresh' \subseteq fresh, UNCHANGED <<lane, sender>>,
               \A d \in Drainer : pc'[d] = "insert" => pc[d] = "insert" /\ current'[d] = current[d]
        PROVE Burst'
    BY <1>7 DEF Burst, OneJobPerBurst
  <1>8. CASE \E d \in Drainer : \/ ReapEvents(d) \/ MarkDone(d) \/ Postpone(d) \/ WriteFailure(d)
                                \/ TickFails(d) \/ Crash(d)
                                \/ (\E S \in SUBSET Event : ClaimBatch(d, S)) \/ \E e \in Event : StatementFails(d, e)
    <2>1. PICK d \in Drainer : \/ ReapEvents(d) \/ MarkDone(d) \/ Postpone(d) \/ WriteFailure(d)
                               \/ TickFails(d) \/ Crash(d)
                               \/ (\E S \in SUBSET Event : ClaimBatch(d, S)) \/ \E e \in Event : StatementFails(d, e)
      BY <1>8
    <2>2. UNCHANGED <<fresh, lane, sender>>
      BY <2>1 DEF ReapEvents, MarkDone, Postpone, WriteFailure, TickFails, Crash, Abandon, ClaimBatch,
                  StatementFails, eventVars, jobVars
    <2>3. pc'[d] # "insert"
      BY <1>1, <2>1 DEF ReapEvents, MarkDone, Postpone, WriteFailure, TickFails, Crash, Abandon, ClaimBatch,
                  StatementFails, NextEvent, TypeOK
    <2> QED
      BY <1>7, <2>2, <2>3
  <1>9. CASE \/ UNCHANGED vars \/ HoldJobs \/ ReleaseHolds
             \/ \E e \in Event : \/ EventDue(e) \/ EventOverdue(e) \/ Derived(e) \/ JobDue(e) \/ StartTurn(e)
                                 \/ ReadHistory(e)
                                 \/ (\E verdict \in Queue!Verdict : EndUnread(e, verdict) \/ SettleTurn(e, verdict))
                                 \/ \E rescheduled \in BOOLEAN : ReturnTurn(e, rescheduled)
    <2>1. fresh' \subseteq fresh /\ UNCHANGED <<lane, sender, pc, current>>
      BY <1>9 DEF HoldJobs, ReleaseHolds, EventDue, EventOverdue, Derived, JobDue, StartTurn, ReadHistory,
                  EndUnread, SettleTurn, ReturnTurn, Queue!Grant, Queue!Release, vars, eventVars, tickVars, jobVars
    <2> QED
      BY <1>7, <2>1
  <1> QED
    BY <1>4, <1>5, <1>6, <1>8, <1>9 DEF Next, TickStep, Process

(* "mensagens do MESMO contato dentro da janela de debounce viram UM job"  *)
(* (drain.ts), for any number of messages and contacts, while one process  *)
(* drains.                                                                 *)
THEOREM BurstsAreCoalesced == ASSUME \A c, d \in Drainer : c = d PROVE Spec => []OneJobPerBurst
  <1>1. IInv /\ Burst /\ [Next]_vars => Burst'
    BY BurstNext
  <1>2. Init => Burst
    BY DEF Init, Burst, OneJobPerBurst
  <1>3. Burst => OneJobPerBurst
    BY DEF Burst
  <1> QED
    BY <1>1, <1>2, <1>3, Invariance, PTL DEF Spec

(* Every step of the drain, the clock, the turns and the holds leaves the  *)
(* queue alone or is a step the queue may take.                            *)
LEMMA LaneStep == ASSUME IInv, [Next]_vars PROVE [Queue!Next]_(Queue!vars)
  <1> USE DEF Queue!vars
  <1>0. TypeOK /\ Ticks
    BY DEF IInv
  <1>1. CASE UNCHANGED jobVars
    BY <1>1 DEF jobVars
  <1>2. CASE \E d \in Drainer : InsertJob(d)
    <2>1. PICK d \in Drainer : InsertJob(d)
      BY <1>2
    <2>2. CASE phase[current[d]] = "absent"
      <3>1. Queue!Accept(current[d], sender[current[d]])
        BY <2>1, <2>2 DEF InsertJob
      <3>2. current[d] \in Event
        BY <1>0, <2>1 DEF TypeOK, Ticks, InsertJob
      <3> QED
        BY <1>0, <3>1, <3>2 DEF TypeOK, Queue!Next
    <2> QED
      BY <2>1, <2>2 DEF InsertJob, jobVars
  <1>3. CASE \E j \in Event : StartTurn(j)
    BY <1>3 DEF StartTurn, Queue!Next
  <1>4. CASE \/ \E j \in Event, verdict \in Queue!Verdict :
                  EndUnread(j, verdict) \/ SettleTurn(j, verdict)
             \/ \E j \in Event, rescheduled \in BOOLEAN : ReturnTurn(j, rescheduled)
    <2>1. PICK j \in Event, verdict \in Queue!Verdict \cup {"waiting"} :
            Queue!Release([phase EXCEPT ![j] = verdict])
      BY <1>4 DEF EndUnread, SettleTurn, ReturnTurn
    <2>2. [phase EXCEPT ![j] = verdict] \in [Event -> {"absent", "waiting", "leased"} \cup Queue!Verdict]
      BY <1>0 DEF TypeOK, Queue!Verdict
    <2> QED
      BY <2>1, <2>2 DEF Queue!Next
  <1> QED
    BY <1>1, <1>2, <1>3, <1>4
    DEF Next, TickStep, Process, Receive, ReapEvents, ClaimBatch, Examine, MarkDone, Postpone,
        WriteFailure, StatementFails, TickFails, Crash, Abandon, EventDue, EventOverdue, Derived,
        JobDue, HoldJobs, ReleaseHolds, ReadHistory, jobVars, vars

(* drain.ts reaches the queue only by inserting rows and the turns only by *)
(* leases: with whatever drains, holds, crashes and reaps, the jobs of the *)
(* composition live the life JobQueueProofs shows claim_next_jobs,         *)
(* complete_job and the reaper to give them.                               *)
THEOREM DispatchUsesTheQueue == Spec => Queue!Spec
  <1>1. Init => Queue!Init
    BY DEF Init
  <1>2. IInv /\ [Next]_vars => [Queue!Next]_(Queue!vars)
    BY LaneStep
  <1> QED
    BY <1>1, <1>2, Invariance, PTL DEF Spec, Queue!Spec

(* Although drain.ts may insert several jobs of one contact, in any order  *)
(* and from several processes, two of them are never leased together: the  *)
(* inbox of a contact is read by one turn at a time.                       *)
THEOREM OneTurnPerContact ==
  Spec => [](\A i, j \in Event : phase[i] = "leased" /\ phase[j] = "leased" /\ lane[i] = lane[j] => i = j)
  <1> DEFINE One == \A i, j \in Event : phase[i] = "leased" /\ phase[j] = "leased" /\ lane[i] = lane[j] => i = j
  <1>1. Init => One
    BY DEF Init, Queue!Init
  <1>2. IInv /\ One /\ [Next]_vars => One'
    <2> SUFFICES ASSUME IInv, One, [Queue!Next]_(Queue!vars) PROVE One'
      BY LaneStep
    <2>0. TypeOK /\ Jobs
      BY DEF IInv
    <2>1. ASSUME NEW e \in Event, NEW c \in Contact \cup {None}, Queue!Accept(e, c) PROVE One'
      BY <2>0, <2>1 DEF Queue!Accept, TypeOK
    <2>2. ASSUME NEW S \in SUBSET Event, Queue!Grant(S) PROVE One'
      <3>1. \A j \in Event : phase[j] \in {"waiting", "leased"} => lane[j] # None
        BY <2>0 DEF Jobs
      <3>2. \A i \in S, j \in S \cup {k \in Event : phase[k] = "leased"} : i # j => lane[i] # lane[j]
        BY <2>2, <3>1 DEF Queue!Grant, Queue!Leased, Queue!Compatible
      <3>3. \A j \in Event : phase'[j] = "leased" => j \in S \cup {k \in Event : phase[k] = "leased"}
        BY <2>2 DEF Queue!Grant
      <3>4. lane' = lane
        BY <2>2 DEF Queue!Grant
      <3> QED
        BY <3>2, <3>3, <3>4
    <2>3. ASSUME NEW out, Queue!Release(out) PROVE One'
      BY <2>3 DEF Queue!Release
    <2>4. CASE UNCHANGED Queue!vars
      BY <2>4 DEF Queue!vars
    <2> QED
      BY <2>1, <2>2, <2>3, <2>4 DEF Queue!Next
  <1> QED
    BY <1>1, <1>2, Invariance, PTL DEF Spec
=============================================================================
