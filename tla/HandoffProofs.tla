--------------------------- MODULE HandoffProofs ---------------------------
(***************************************************************************)
(* Proofs about Handoff, for any number of jobs, cases, promises, worker   *)
(* slots and requests: what a person answers takes effect, a handoff is    *)
(* heard unless it was cut short, a cancelled return never fired, and      *)
(* after force_human was set the contact gets what was already queued for  *)
(* it and one more message at most.                                        *)
(***************************************************************************)
EXTENDS Handoff, TLAPS

(* All jobs are of the one contact: at most one of them is leased. *)
OneLane ==
  /\ \A j \in Job : phase[j] # "absent" => lane[j] = Lead
  /\ \A i, j \in Job : phase[i] = "leased" /\ phase[j] = "leased" => i = j

(* A turn works under the lease of its job, so there is one turn at most. *)
Busy ==
  \A w \in Worker : step[w] # "idle" => subject[w] \in Job /\ phase[subject[w]] = "leased"
OneTurn ==
  \A v, w \in Worker : step[v] # "idle" /\ step[w] # "idle" => v = w

(* Only a request escalates; past its alert, its case was served. *)
PastAlert(a) ==
  \/ step[a] \in {"open_case", "insert_case"} /\ resume[a] = "escalate"
  \/ step[a] = "escalate"
Escalations ==
  /\ \A w \in Worker : resume[w] # "escalate" /\ step[w] # "escalate"
  /\ \A a \in Actor : resume[a] = "escalate" =>
       /\ subject[a] \in Case
       /\ step[a] \in {"force", "open_case", "insert_case", "escalate"} \cup HandoffStep
  /\ \A a \in Actor : PastAlert(a) => subject[a] \in served

(* Only a promise that no longer counts as scheduled ever became a job. *)
Fired == \A p \in Promise : phase[p] # "absent" => promise[p] = "disabled"

(* A message on its way while force_human is set is still in the budget.   *)
LateSoFar ==
  /\ force => unsent <= budget
  /\ force /\ (\E w \in Worker : step[w] = "deliver") => unsent < budget

IInv == TypeOK /\ OneLane /\ Busy /\ OneTurn /\ Escalations /\ Fired /\ LateSoFar
          /\ AnswerTakesEffect /\ HandoffIsHeard

(* The kinds of job are disjoint. *)
LEMMA Jobs ==
  /\ Inbound \subseteq Job /\ Promise \subseteq Job /\ Inbound \cap Promise = {}
  /\ \A c \in Case, r \in ReplyAction :
       <<c, r>> \in Job /\ <<c, r>> \notin Inbound \cup Promise
  /\ Worker \subseteq Actor /\ Request \subseteq Actor /\ Worker \cap Request = {}
  /\ Lead # None /\ None \notin Job /\ None \notin Case
  BY JobAssumption, ActorAssumption, NoneAssumption DEF Job, Actor

(* Granting a lease of the contact finds no other one. *)
LEMMA GrantFacts ==
  ASSUME TypeOK, OneLane, NEW j \in Job, Queue!Grant({j})
  PROVE  /\ phase[j] = "waiting" /\ phase' = [phase EXCEPT ![j] = "leased"]
         /\ lane' = lane /\ alerted' = alerted
         /\ \A i \in Job : phase[i] # "leased"
  <1>1. phase[j] = "waiting" /\ lane' = lane /\ alerted' = alerted
    BY DEF Queue!Grant
  <1>2. phase' = [phase EXCEPT ![j] = "leased"]
    BY DEF Queue!Grant, TypeOK
  <1>3. ASSUME NEW i \in Job, phase[i] = "leased" PROVE FALSE
    <2>1. i # j /\ i \in {j} \cup Queue!Leased
      BY <1>1, <1>3 DEF Queue!Leased
    <2>2. Queue!Compatible(j, i)
      BY <2>1 DEF Queue!Grant
    <2> QED
      BY <1>1, <1>3, <2>2, Jobs DEF Queue!Compatible, OneLane
  <1> QED
    BY <1>1, <1>2, <1>3

(* Ending a lease. *)
LEMMA SettleFacts ==
  ASSUME TypeOK, NEW j \in Job, NEW v \in {"waiting", "done", "dead"}, Settle(j, v)
  PROVE  /\ phase' = [phase EXCEPT ![j] = v] /\ lane' = lane
         /\ alerted' \subseteq Job
  <1>1. phase' = [phase EXCEPT ![j] = v] /\ lane' = lane
    BY DEF Settle, Queue!Release
  <1>2. alerted' \subseteq Job
    BY DEF Settle, Queue!Release, Queue!Leased, TypeOK
  <1> QED
    BY <1>1, <1>2

(* The queue hands out one lease at a time. *)
LEMMA OneLaneInv ==
  ASSUME TypeOK, OneLane, Busy, [Next]_vars PROVE OneLane'
  <1> USE DEF queueVars, OneLane
  <1>1. ASSUME NEW i \in Inbound, NEW b \in BOOLEAN, Receive(i, b) PROVE OneLane'
    BY <1>1, Jobs DEF TypeOK, Receive, Queue!Accept
  <1>2. ASSUME NEW p \in Promise, Fire(p) PROVE OneLane'
    BY <1>2, Jobs DEF TypeOK, Fire, Queue!Accept
  <1>3. ASSUME NEW j \in Job, Reap(j) PROVE OneLane'
    BY <1>3, SettleFacts DEF TypeOK, Reap
  <1>4. ASSUME NEW w \in Worker, NEW j \in Job, Claim(w, j) PROVE OneLane'
    BY <1>4, GrantFacts DEF TypeOK, Claim
  <1>5. ASSUME NEW w \in Worker, Finish(w) PROVE OneLane'
    BY <1>5, SettleFacts DEF TypeOK, Finish, Busy
  <1>6. ASSUME NEW w \in Worker, Fail(w) PROVE OneLane'
    BY <1>6, SettleFacts DEF TypeOK, Fail, Busy
  <1>7. ASSUME NEW c \in Case, NEW action \in ReplyAction, Answer(c, action) PROVE OneLane'
    BY <1>7, Jobs DEF TypeOK, Answer, Queue!Accept
  <1>8. ASSUME NEW p \in Promise,
               FireFails(p)
        PROVE  UNCHANGED <<phase, lane>>
    BY <1>8 DEF FireFails
  <1>9. ASSUME NEW w \in Worker,
               Begin(w) \/ ReadContext(w) \/ ModelCalls(w) \/ Gate(w) \/
               Deliver(w)
        PROVE  UNCHANGED <<phase, lane>>
    BY <1>9 DEF Begin, ReadContext, ModelCalls, Gate, Deliver
  <1>10. ASSUME NEW w \in Worker, NEW c \in Case,
               ModelMovesCase(w, c)
        PROVE  UNCHANGED <<phase, lane>>
    BY <1>10 DEF ModelMovesCase
  <1>11. ASSUME NEW a \in Actor,
               SetForce(a) \/ Silence(a) \/ CancelCrons(a) \/ Alert(a) \/
               LookForCase(a) \/ LookForPromise(a) \/ Die(a)
        PROVE  UNCHANGED <<phase, lane>>
    BY <1>11 DEF SetForce, Silence, CancelCrons, Alert, LookForCase, LookForPromise, Die
  <1>12. ASSUME NEW a \in Actor, NEW c \in Case,
               InsertCase(a, c)
        PROVE  UNCHANGED <<phase, lane>>
    BY <1>12 DEF InsertCase
  <1>13. ASSUME NEW a \in Actor, NEW p \in Promise,
               InsertPromise(a, p)
        PROVE  UNCHANGED <<phase, lane>>
    BY <1>13 DEF InsertPromise
  <1>14. ASSUME NEW r \in Request, NEW c \in Case,
               AskEscalation(r, c)
        PROVE  UNCHANGED <<phase, lane>>
    BY <1>14 DEF AskEscalation
  <1>15. ASSUME NEW r \in Request,
               Escalate(r) \/ AskReturn(r) \/ Unsilence(r) \/
               CloseCase(r) \/ Unforce(r) \/ Cancel(r)
        PROVE  UNCHANGED <<phase, lane>>
    BY <1>15 DEF Escalate, AskReturn, Unsilence, CloseCase, Unforce, Cancel
  <1>16. ASSUME NEW r \in Request, NEW p \in Promise,
               AskCancel(r, p)
        PROVE  UNCHANGED <<phase, lane>>
    BY <1>16 DEF AskCancel
  <1>17. ASSUME MoveItem \/ Redrive
        PROVE  UNCHANGED <<phase, lane>>
    BY <1>17 DEF MoveItem, Redrive
  <1>18. CASE UNCHANGED vars
    BY <1>18 DEF vars, queueVars, contactVars, actorVars, history, bounds
  <1> QED
    BY <1>1, <1>2, <1>3, <1>4, <1>5, <1>6, <1>7, <1>8, <1>9, <1>10, <1>11, <1>12, <1>13,
       <1>14, <1>15, <1>16, <1>17, <1>18
    DEF Next, Turn, Statement, Route

(* A turn ends with its lease, and the reaper takes none from a turn. *)
LEMMA BusyInv ==
  ASSUME TypeOK, OneLane, Busy, OneTurn, [Next]_vars PROVE Busy'
  <1> USE DEF queueVars, actorVars, Busy
  <1>1. ASSUME NEW i \in Inbound, NEW b \in BOOLEAN, Receive(i, b) PROVE Busy'
    BY <1>1, Jobs DEF TypeOK, Receive, Queue!Accept
  <1>2. ASSUME NEW p \in Promise, Fire(p) PROVE Busy'
    BY <1>2, Jobs DEF TypeOK, Fire, Queue!Accept
  <1>3. ASSUME NEW j \in Job, Reap(j) PROVE Busy'
    BY <1>3, SettleFacts, Jobs DEF TypeOK, Reap
  <1>4. ASSUME NEW w \in Worker, NEW j \in Job, Claim(w, j) PROVE Busy'
    BY <1>4, GrantFacts, Jobs DEF TypeOK, Claim, Start
  <1>5. ASSUME NEW w \in Worker, Begin(w) PROVE Busy'
    BY <1>5, Jobs DEF TypeOK, Begin, Go
  <1>6. ASSUME NEW w \in Worker, ReadContext(w) PROVE Busy'
    BY <1>6, Jobs DEF TypeOK, ReadContext
  <1>7. ASSUME NEW w \in Worker, ModelCalls(w) PROVE Busy'
    BY <1>7, Jobs DEF TypeOK, ModelCalls, Go
  <1>8. ASSUME NEW w \in Worker, Gate(w) PROVE Busy'
    BY <1>8, Jobs DEF TypeOK, Gate, Go
  <1>9. ASSUME NEW w \in Worker, Deliver(w) PROVE Busy'
    BY <1>9, Jobs DEF TypeOK, Deliver, Go
  <1>10. ASSUME NEW w \in Worker, Finish(w) PROVE Busy'
    BY <1>10, SettleFacts, Jobs DEF TypeOK, Finish, Quit, OneTurn
  <1>11. ASSUME NEW w \in Worker, Fail(w) PROVE Busy'
    BY <1>11, SettleFacts, Jobs DEF TypeOK, Fail, Quit, OneTurn
  <1>12. ASSUME NEW a \in Actor, SetForce(a) PROVE Busy'
    BY <1>12, Jobs DEF TypeOK, SetForce, Go
  <1>13. ASSUME NEW a \in Actor, Silence(a) PROVE Busy'
    BY <1>13, Jobs DEF TypeOK, Silence, Go
  <1>14. ASSUME NEW a \in Actor, CancelCrons(a) PROVE Busy'
    BY <1>14, Jobs DEF TypeOK, CancelCrons, Go
  <1>15. ASSUME NEW a \in Actor, Alert(a) PROVE Busy'
    BY <1>15, Jobs DEF TypeOK, Alert, Go
  <1>16. ASSUME NEW a \in Actor, LookForCase(a) PROVE Busy'
    BY <1>16, Jobs DEF TypeOK, LookForCase, Go, Quit, Return
  <1>17. ASSUME NEW a \in Actor, NEW c \in Case, InsertCase(a, c) PROVE Busy'
    BY <1>17, Jobs DEF TypeOK, InsertCase, Go, Quit, Return
  <1>18. ASSUME NEW a \in Actor, LookForPromise(a) PROVE Busy'
    BY <1>18, Jobs DEF TypeOK, LookForPromise, Start, Go
  <1>19. ASSUME NEW a \in Actor, NEW p \in Promise, InsertPromise(a, p) PROVE Busy'
    BY <1>19, Jobs DEF TypeOK, InsertPromise, Go, Quit, Return
  <1>20. ASSUME NEW a \in Actor, Die(a) PROVE Busy'
    BY <1>20, Jobs DEF TypeOK, Die, Quit
  <1>21. ASSUME NEW r \in Request, NEW c \in Case, AskEscalation(r, c) PROVE Busy'
    BY <1>21, Jobs DEF TypeOK, AskEscalation, Start
  <1>22. ASSUME NEW r \in Request, Escalate(r) PROVE Busy'
    BY <1>22, Jobs DEF TypeOK, Escalate, Quit
  <1>23. ASSUME NEW r \in Request, AskReturn(r) PROVE Busy'
    BY <1>23, Jobs DEF TypeOK, AskReturn, Start
  <1>24. ASSUME NEW r \in Request, Unsilence(r) PROVE Busy'
    BY <1>24, Jobs DEF TypeOK, Unsilence, Go, Quit
  <1>25. ASSUME NEW r \in Request, CloseCase(r) PROVE Busy'
    BY <1>25, Jobs DEF TypeOK, CloseCase, Go
  <1>26. ASSUME NEW r \in Request, Unforce(r) PROVE Busy'
    BY <1>26, Jobs DEF TypeOK, Unforce, Quit
  <1>27. ASSUME NEW r \in Request, NEW p \in Promise, AskCancel(r, p) PROVE Busy'
    BY <1>27, Jobs DEF TypeOK, AskCancel, Start
  <1>28. ASSUME NEW r \in Request, Cancel(r) PROVE Busy'
    BY <1>28, Jobs DEF TypeOK, Cancel, Quit
  <1>29. ASSUME NEW c \in Case, NEW action \in ReplyAction, Answer(c, action) PROVE Busy'
    BY <1>29, Jobs DEF TypeOK, Answer, Queue!Accept
  <1>30. ASSUME NEW p \in Promise,
               FireFails(p)
        PROVE  UNCHANGED <<phase, step, subject>>
    BY <1>30 DEF FireFails
  <1>31. ASSUME NEW w \in Worker, NEW c \in Case,
               ModelMovesCase(w, c)
        PROVE  UNCHANGED <<phase, step, subject>>
    BY <1>31 DEF ModelMovesCase
  <1>32. ASSUME MoveItem \/ Redrive
        PROVE  UNCHANGED <<phase, step, subject>>
    BY <1>32 DEF MoveItem, Redrive
  <1>33. CASE UNCHANGED vars
    BY <1>33 DEF vars, queueVars, contactVars, actorVars, history, bounds
  <1> QED
    BY <1>1, <1>2, <1>3, <1>4, <1>5, <1>6, <1>7, <1>8, <1>9, <1>10, <1>11, <1>12, <1>13,
       <1>14, <1>15, <1>16, <1>17, <1>18, <1>19, <1>20, <1>21, <1>22, <1>23, <1>24,
       <1>25, <1>26, <1>27, <1>28, <1>29, <1>30, <1>31, <1>32, <1>33
    DEF Next, Turn, Statement, Route

(* A turn starts only while no other runs. *)
LEMMA OneTurnInv ==
  ASSUME TypeOK, OneLane, Busy, OneTurn, [Next]_vars PROVE OneTurn'
  <1> USE DEF actorVars, OneTurn
  <1>1. ASSUME NEW w \in Worker, NEW j \in Job, Claim(w, j) PROVE OneTurn'
    BY <1>1, GrantFacts, Jobs DEF TypeOK, Busy, Claim, Start
  <1>2. ASSUME NEW w \in Worker, Begin(w) PROVE OneTurn'
    BY <1>2, Jobs DEF TypeOK, Begin, Go
  <1>3. ASSUME NEW w \in Worker, ReadContext(w) PROVE OneTurn'
    BY <1>3, Jobs DEF TypeOK, ReadContext
  <1>4. ASSUME NEW w \in Worker, ModelCalls(w) PROVE OneTurn'
    BY <1>4, Jobs DEF TypeOK, ModelCalls, Go
  <1>5. ASSUME NEW w \in Worker, Gate(w) PROVE OneTurn'
    BY <1>5, Jobs DEF TypeOK, Gate, Go
  <1>6. ASSUME NEW w \in Worker, Deliver(w) PROVE OneTurn'
    BY <1>6, Jobs DEF TypeOK, Deliver, Go
  <1>7. ASSUME NEW w \in Worker, Finish(w) PROVE OneTurn'
    BY <1>7, Jobs DEF TypeOK, Finish, Quit
  <1>8. ASSUME NEW w \in Worker, Fail(w) PROVE OneTurn'
    BY <1>8, Jobs DEF TypeOK, Fail, Quit
  <1>9. ASSUME NEW a \in Actor, SetForce(a) PROVE OneTurn'
    BY <1>9, Jobs DEF TypeOK, SetForce, Go
  <1>10. ASSUME NEW a \in Actor, Silence(a) PROVE OneTurn'
    BY <1>10, Jobs DEF TypeOK, Silence, Go
  <1>11. ASSUME NEW a \in Actor, CancelCrons(a) PROVE OneTurn'
    BY <1>11, Jobs DEF TypeOK, CancelCrons, Go
  <1>12. ASSUME NEW a \in Actor, Alert(a) PROVE OneTurn'
    BY <1>12, Jobs DEF TypeOK, Alert, Go
  <1>13. ASSUME NEW a \in Actor, LookForCase(a) PROVE OneTurn'
    BY <1>13, Jobs DEF TypeOK, LookForCase, Go, Quit, Return
  <1>14. ASSUME NEW a \in Actor, NEW c \in Case, InsertCase(a, c) PROVE OneTurn'
    BY <1>14, Jobs DEF TypeOK, InsertCase, Go, Quit, Return
  <1>15. ASSUME NEW a \in Actor, LookForPromise(a) PROVE OneTurn'
    BY <1>15, Jobs DEF TypeOK, LookForPromise, Start, Go
  <1>16. ASSUME NEW a \in Actor, NEW p \in Promise, InsertPromise(a, p) PROVE OneTurn'
    BY <1>16, Jobs DEF TypeOK, InsertPromise, Go, Quit, Return
  <1>17. ASSUME NEW a \in Actor, Die(a) PROVE OneTurn'
    BY <1>17, Jobs DEF TypeOK, Die, Quit
  <1>18. ASSUME NEW r \in Request, NEW c \in Case, AskEscalation(r, c) PROVE OneTurn'
    BY <1>18, Jobs DEF TypeOK, AskEscalation, Start
  <1>19. ASSUME NEW r \in Request, Escalate(r) PROVE OneTurn'
    BY <1>19, Jobs DEF TypeOK, Escalate, Quit
  <1>20. ASSUME NEW r \in Request, AskReturn(r) PROVE OneTurn'
    BY <1>20, Jobs DEF TypeOK, AskReturn, Start
  <1>21. ASSUME NEW r \in Request, Unsilence(r) PROVE OneTurn'
    BY <1>21, Jobs DEF TypeOK, Unsilence, Go, Quit
  <1>22. ASSUME NEW r \in Request, CloseCase(r) PROVE OneTurn'
    BY <1>22, Jobs DEF TypeOK, CloseCase, Go
  <1>23. ASSUME NEW r \in Request, Unforce(r) PROVE OneTurn'
    BY <1>23, Jobs DEF TypeOK, Unforce, Quit
  <1>24. ASSUME NEW r \in Request, NEW p \in Promise, AskCancel(r, p) PROVE OneTurn'
    BY <1>24, Jobs DEF TypeOK, AskCancel, Start
  <1>25. ASSUME NEW r \in Request, Cancel(r) PROVE OneTurn'
    BY <1>25, Jobs DEF TypeOK, Cancel, Quit
  <1>26. ASSUME NEW i \in Inbound, NEW b \in BOOLEAN,
               Receive(i, b)
        PROVE  UNCHANGED step
    BY <1>26 DEF Receive
  <1>27. ASSUME NEW p \in Promise,
               Fire(p) \/ FireFails(p)
        PROVE  UNCHANGED step
    BY <1>27 DEF Fire, FireFails
  <1>28. ASSUME NEW j \in Job,
               Reap(j)
        PROVE  UNCHANGED step
    BY <1>28 DEF Reap
  <1>29. ASSUME NEW w \in Worker, NEW c \in Case,
               ModelMovesCase(w, c)
        PROVE  UNCHANGED step
    BY <1>29 DEF ModelMovesCase
  <1>30. ASSUME NEW c \in Case, NEW action \in ReplyAction,
               Answer(c, action)
        PROVE  UNCHANGED step
    BY <1>30 DEF Answer
  <1>31. ASSUME MoveItem \/ Redrive
        PROVE  UNCHANGED step
    BY <1>31 DEF MoveItem, Redrive
  <1>32. CASE UNCHANGED vars
    BY <1>32 DEF vars, queueVars, contactVars, actorVars, history, bounds
  <1> QED
    BY <1>1, <1>2, <1>3, <1>4, <1>5, <1>6, <1>7, <1>8, <1>9, <1>10, <1>11, <1>12, <1>13,
       <1>14, <1>15, <1>16, <1>17, <1>18, <1>19, <1>20, <1>21, <1>22, <1>23, <1>24,
       <1>25, <1>26, <1>27, <1>28, <1>29, <1>30, <1>31, <1>32
    DEF Next, Turn, Statement, Route

(* An escalation returns to its case after the alert, and no turn does. *)
LEMMA EscalationsInv ==
  ASSUME TypeOK, Escalations, [Next]_vars PROVE Escalations'
  <1> USE DEF actorVars, history, Escalations, PastAlert, HandoffStep
  <1>1. ASSUME NEW w \in Worker, NEW j \in Job, Claim(w, j) PROVE Escalations'
    BY <1>1, Jobs DEF TypeOK, Claim, Start
  <1>2. ASSUME NEW w \in Worker, Begin(w) PROVE Escalations'
    BY <1>2, Jobs DEF TypeOK, Begin, Go
  <1>3. ASSUME NEW w \in Worker, ReadContext(w) PROVE Escalations'
    BY <1>3, Jobs DEF TypeOK, ReadContext
  <1>4. ASSUME NEW w \in Worker, ModelCalls(w) PROVE Escalations'
    BY <1>4, Jobs DEF TypeOK, ModelCalls, Go
  <1>5. ASSUME NEW w \in Worker, Gate(w) PROVE Escalations'
    BY <1>5, Jobs DEF TypeOK, Gate, Go
  <1>6. ASSUME NEW w \in Worker, Deliver(w) PROVE Escalations'
    BY <1>6, Jobs DEF TypeOK, Deliver, Go
  <1>7. ASSUME NEW w \in Worker, Finish(w) PROVE Escalations'
    BY <1>7, Jobs DEF TypeOK, Finish, Quit
  <1>8. ASSUME NEW w \in Worker, Fail(w) PROVE Escalations'
    BY <1>8, Jobs DEF TypeOK, Fail, Quit
  <1>9. ASSUME NEW a \in Actor, SetForce(a) PROVE Escalations'
    BY <1>9, Jobs DEF TypeOK, SetForce, Go
  <1>10. ASSUME NEW a \in Actor, Silence(a) PROVE Escalations'
    BY <1>10, Jobs DEF TypeOK, Silence, Go
  <1>11. ASSUME NEW a \in Actor, CancelCrons(a) PROVE Escalations'
    BY <1>11, Jobs DEF TypeOK, CancelCrons, Go
  <1>12. ASSUME NEW a \in Actor, Alert(a) PROVE Escalations'
    BY <1>12, Jobs DEF TypeOK, Alert, AlertItem, Go
  <1>13. ASSUME NEW a \in Actor, LookForCase(a) PROVE Escalations'
    BY <1>13, Jobs DEF TypeOK, LookForCase, Go, Quit, Return
  <1>14. ASSUME NEW a \in Actor, NEW c \in Case, InsertCase(a, c) PROVE Escalations'
    BY <1>14, Jobs DEF TypeOK, InsertCase, Go, Quit, Return
  <1>15. ASSUME NEW a \in Actor, LookForPromise(a) PROVE Escalations'
    BY <1>15, Jobs DEF TypeOK, LookForPromise, Start, Go
  <1>16. ASSUME NEW a \in Actor, NEW p \in Promise, InsertPromise(a, p) PROVE Escalations'
    BY <1>16, Jobs DEF TypeOK, InsertPromise, Go, Quit, Return
  <1>17. ASSUME NEW a \in Actor, Die(a) PROVE Escalations'
    BY <1>17, Jobs DEF TypeOK, Die, Quit
  <1>18. ASSUME NEW r \in Request, NEW c \in Case, AskEscalation(r, c) PROVE Escalations'
    BY <1>18, Jobs DEF TypeOK, AskEscalation, Start
  <1>19. ASSUME NEW r \in Request, Escalate(r) PROVE Escalations'
    BY <1>19, Jobs DEF TypeOK, Escalate, Quit
  <1>20. ASSUME NEW r \in Request, AskReturn(r) PROVE Escalations'
    BY <1>20, Jobs DEF TypeOK, AskReturn, Start
  <1>21. ASSUME NEW r \in Request, Unsilence(r) PROVE Escalations'
    BY <1>21, Jobs DEF TypeOK, Unsilence, Go, Quit
  <1>22. ASSUME NEW r \in Request, CloseCase(r) PROVE Escalations'
    BY <1>22, Jobs DEF TypeOK, CloseCase, Go
  <1>23. ASSUME NEW r \in Request, Unforce(r) PROVE Escalations'
    BY <1>23, Jobs DEF TypeOK, Unforce, Quit
  <1>24. ASSUME NEW r \in Request, NEW p \in Promise, AskCancel(r, p) PROVE Escalations'
    BY <1>24, Jobs DEF TypeOK, AskCancel, Start
  <1>25. ASSUME NEW r \in Request, Cancel(r) PROVE Escalations'
    BY <1>25, Jobs DEF TypeOK, Cancel, Quit
  <1>26. ASSUME NEW i \in Inbound, NEW b \in BOOLEAN,
               Receive(i, b)
        PROVE  UNCHANGED <<step, subject, resume, served>>
    BY <1>26 DEF Receive
  <1>27. ASSUME NEW p \in Promise,
               Fire(p) \/ FireFails(p)
        PROVE  UNCHANGED <<step, subject, resume, served>>
    BY <1>27 DEF Fire, FireFails
  <1>28. ASSUME NEW j \in Job,
               Reap(j)
        PROVE  UNCHANGED <<step, subject, resume, served>>
    BY <1>28 DEF Reap
  <1>29. ASSUME NEW w \in Worker, NEW c \in Case,
               ModelMovesCase(w, c)
        PROVE  UNCHANGED <<step, subject, resume, served>>
    BY <1>29 DEF ModelMovesCase
  <1>30. ASSUME NEW c \in Case, NEW action \in ReplyAction,
               Answer(c, action)
        PROVE  UNCHANGED <<step, subject, resume, served>>
    BY <1>30 DEF Answer
  <1>31. ASSUME MoveItem \/ Redrive
        PROVE  UNCHANGED <<step, subject, resume, served>>
    BY <1>31 DEF MoveItem, Redrive
  <1>32. CASE UNCHANGED vars
    BY <1>32 DEF vars, queueVars, contactVars, actorVars, history, bounds
  <1> QED
    BY <1>1, <1>2, <1>3, <1>4, <1>5, <1>6, <1>7, <1>8, <1>9, <1>10, <1>11, <1>12, <1>13,
       <1>14, <1>15, <1>16, <1>17, <1>18, <1>19, <1>20, <1>21, <1>22, <1>23, <1>24,
       <1>25, <1>26, <1>27, <1>28, <1>29, <1>30, <1>31, <1>32
    DEF Next, Turn, Statement, Route

(* A promise becomes a job and stops being scheduled in one transaction. *)
LEMMA FiredInv ==
  ASSUME TypeOK, OneLane, Busy, Fired, [Next]_vars PROVE Fired'
  <1> USE DEF queueVars, Fired
  <1>1. ASSUME NEW i \in Inbound, NEW b \in BOOLEAN, Receive(i, b) PROVE Fired'
    BY <1>1, Jobs DEF TypeOK, Receive, Queue!Accept
  <1>2. ASSUME NEW p \in Promise, Fire(p) PROVE Fired'
    BY <1>2, Jobs DEF TypeOK, Fire, Queue!Accept
  <1>3. ASSUME NEW p \in Promise, FireFails(p) PROVE Fired'
    BY <1>3 DEF TypeOK, FireFails
  <1>4. ASSUME NEW j \in Job, Reap(j) PROVE Fired'
    BY <1>4, SettleFacts, Jobs DEF TypeOK, Reap
  <1>5. ASSUME NEW w \in Worker, NEW j \in Job, Claim(w, j) PROVE Fired'
    BY <1>5, GrantFacts, Jobs DEF TypeOK, Claim
  <1>6. ASSUME NEW w \in Worker, Finish(w) PROVE Fired'
    BY <1>6, SettleFacts, Jobs DEF TypeOK, Finish, Busy
  <1>7. ASSUME NEW w \in Worker, Fail(w) PROVE Fired'
    BY <1>7, SettleFacts, Jobs DEF TypeOK, Fail, Busy
  <1>8. ASSUME NEW a \in Actor, CancelCrons(a) PROVE Fired'
    BY <1>8 DEF TypeOK, CancelCrons, Enabled
  <1>9. ASSUME NEW a \in Actor, NEW p \in Promise, InsertPromise(a, p) PROVE Fired'
    BY <1>9 DEF TypeOK, InsertPromise
  <1>10. ASSUME NEW r \in Request, Cancel(r) PROVE Fired'
    BY <1>10, Jobs DEF TypeOK, Cancel, MarkCancelled
  <1>11. ASSUME NEW c \in Case, NEW action \in ReplyAction, Answer(c, action) PROVE Fired'
    BY <1>11, Jobs DEF TypeOK, Answer, Queue!Accept
  <1>12. ASSUME NEW w \in Worker,
               Begin(w) \/ ReadContext(w) \/ ModelCalls(w) \/ Gate(w) \/
               Deliver(w)
        PROVE  UNCHANGED <<phase, promise>>
    BY <1>12 DEF Begin, ReadContext, ModelCalls, Gate, Deliver
  <1>13. ASSUME NEW w \in Worker, NEW c \in Case,
               ModelMovesCase(w, c)
        PROVE  UNCHANGED <<phase, promise>>
    BY <1>13 DEF ModelMovesCase
  <1>14. ASSUME NEW a \in Actor,
               SetForce(a) \/ Silence(a) \/ Alert(a) \/ LookForCase(a) \/
               LookForPromise(a) \/ Die(a)
        PROVE  UNCHANGED <<phase, promise>>
    BY <1>14 DEF SetForce, Silence, Alert, LookForCase, LookForPromise, Die
  <1>15. ASSUME NEW a \in Actor, NEW c \in Case,
               InsertCase(a, c)
        PROVE  UNCHANGED <<phase, promise>>
    BY <1>15 DEF InsertCase
  <1>16. ASSUME NEW r \in Request, NEW c \in Case,
               AskEscalation(r, c)
        PROVE  UNCHANGED <<phase, promise>>
    BY <1>16 DEF AskEscalation
  <1>17. ASSUME NEW r \in Request,
               Escalate(r) \/ AskReturn(r) \/ Unsilence(r) \/
               CloseCase(r) \/ Unforce(r)
        PROVE  UNCHANGED <<phase, promise>>
    BY <1>17 DEF Escalate, AskReturn, Unsilence, CloseCase, Unforce
  <1>18. ASSUME NEW r \in Request, NEW p \in Promise,
               AskCancel(r, p)
        PROVE  UNCHANGED <<phase, promise>>
    BY <1>18 DEF AskCancel
  <1>19. ASSUME MoveItem \/ Redrive
        PROVE  UNCHANGED <<phase, promise>>
    BY <1>19 DEF MoveItem, Redrive
  <1>20. CASE UNCHANGED vars
    BY <1>20 DEF vars, queueVars, contactVars, actorVars, history, bounds
  <1> QED
    BY <1>1, <1>2, <1>3, <1>4, <1>5, <1>6, <1>7, <1>8, <1>9, <1>10, <1>11, <1>12, <1>13,
       <1>14, <1>15, <1>16, <1>17, <1>18, <1>19, <1>20
    DEF Next, Turn, Statement, Route

(* A message passes its gate only while force_human is clear. *)
LEMMA LateInv ==
  ASSUME TypeOK, OneTurn, LateSoFar, [Next]_vars PROVE LateSoFar'
  <1> USE DEF contactVars, actorVars, history, LateSoFar
  <1>1. ASSUME NEW w \in Worker, NEW j \in Job, Claim(w, j) PROVE LateSoFar'
    BY <1>1, GrantFacts, Jobs DEF TypeOK, Busy, Claim, Start
  <1>2. ASSUME NEW w \in Worker, Begin(w) PROVE LateSoFar'
    BY <1>2, Jobs DEF TypeOK, Begin, Go
  <1>3. ASSUME NEW w \in Worker, ReadContext(w) PROVE LateSoFar'
    BY <1>3, Jobs DEF TypeOK, ReadContext
  <1>4. ASSUME NEW w \in Worker, ModelCalls(w) PROVE LateSoFar'
    BY <1>4, Jobs DEF TypeOK, ModelCalls, Go
  <1>5. ASSUME NEW w \in Worker, Gate(w) PROVE LateSoFar'
    BY <1>5, Jobs DEF TypeOK, Gate, Go
  <1>6. ASSUME NEW w \in Worker, Deliver(w) PROVE LateSoFar'
    BY <1>6, Jobs DEF TypeOK, Deliver, Arrives, Go, OneTurn
  <1>7. ASSUME NEW w \in Worker, Finish(w) PROVE LateSoFar'
    BY <1>7, Jobs DEF TypeOK, Finish, Quit
  <1>8. ASSUME NEW w \in Worker, Fail(w) PROVE LateSoFar'
    BY <1>8, Jobs DEF TypeOK, Fail, Quit
  <1>9. ASSUME NEW a \in Actor, SetForce(a) PROVE LateSoFar'
    BY <1>9, Jobs DEF TypeOK, SetForce, Go
  <1>10. ASSUME NEW a \in Actor, Silence(a) PROVE LateSoFar'
    BY <1>10, Jobs DEF TypeOK, Silence, Go
  <1>11. ASSUME NEW a \in Actor, CancelCrons(a) PROVE LateSoFar'
    BY <1>11, Jobs DEF TypeOK, CancelCrons, Go
  <1>12. ASSUME NEW a \in Actor, Alert(a) PROVE LateSoFar'
    BY <1>12, Jobs DEF TypeOK, Alert, Go
  <1>13. ASSUME NEW a \in Actor, LookForCase(a) PROVE LateSoFar'
    BY <1>13, Jobs DEF TypeOK, LookForCase, Go, Quit, Return
  <1>14. ASSUME NEW a \in Actor, NEW c \in Case, InsertCase(a, c) PROVE LateSoFar'
    BY <1>14, Jobs DEF TypeOK, InsertCase, Go, Quit, Return
  <1>15. ASSUME NEW a \in Actor, LookForPromise(a) PROVE LateSoFar'
    BY <1>15, Jobs DEF TypeOK, LookForPromise, Start, Go
  <1>16. ASSUME NEW a \in Actor, NEW p \in Promise, InsertPromise(a, p) PROVE LateSoFar'
    BY <1>16, Jobs DEF TypeOK, InsertPromise, Go, Quit, Return
  <1>17. ASSUME NEW a \in Actor, Die(a) PROVE LateSoFar'
    BY <1>17, Jobs DEF TypeOK, Die, Quit
  <1>18. ASSUME NEW r \in Request, NEW c \in Case, AskEscalation(r, c) PROVE LateSoFar'
    BY <1>18, Jobs DEF TypeOK, AskEscalation, Start
  <1>19. ASSUME NEW r \in Request, Escalate(r) PROVE LateSoFar'
    BY <1>19, Jobs DEF TypeOK, Escalate, Quit
  <1>20. ASSUME NEW r \in Request, AskReturn(r) PROVE LateSoFar'
    BY <1>20, Jobs DEF TypeOK, AskReturn, Start
  <1>21. ASSUME NEW r \in Request, Unsilence(r) PROVE LateSoFar'
    BY <1>21, Jobs DEF TypeOK, Unsilence, Go, Quit
  <1>22. ASSUME NEW r \in Request, CloseCase(r) PROVE LateSoFar'
    BY <1>22, Jobs DEF TypeOK, CloseCase, Go
  <1>23. ASSUME NEW r \in Request, Unforce(r) PROVE LateSoFar'
    BY <1>23, Jobs DEF TypeOK, Unforce, Quit
  <1>24. ASSUME NEW r \in Request, NEW p \in Promise, AskCancel(r, p) PROVE LateSoFar'
    BY <1>24, Jobs DEF TypeOK, AskCancel, Start
  <1>25. ASSUME NEW r \in Request, Cancel(r) PROVE LateSoFar'
    BY <1>25, Jobs DEF TypeOK, Cancel, Quit
  <1>26. ASSUME NEW i \in Inbound, NEW b \in BOOLEAN,
               Receive(i, b)
        PROVE  UNCHANGED <<force, budget, unsent, step>>
    BY <1>26 DEF Receive
  <1>27. ASSUME NEW p \in Promise,
               Fire(p) \/ FireFails(p)
        PROVE  UNCHANGED <<force, budget, unsent, step>>
    BY <1>27 DEF Fire, FireFails
  <1>28. ASSUME NEW j \in Job,
               Reap(j)
        PROVE  UNCHANGED <<force, budget, unsent, step>>
    BY <1>28 DEF Reap
  <1>29. ASSUME NEW w \in Worker, NEW c \in Case,
               ModelMovesCase(w, c)
        PROVE  UNCHANGED <<force, budget, unsent, step>>
    BY <1>29 DEF ModelMovesCase
  <1>30. ASSUME NEW c \in Case, NEW action \in ReplyAction,
               Answer(c, action)
        PROVE  UNCHANGED <<force, budget, unsent, step>>
    BY <1>30 DEF Answer
  <1>31. ASSUME MoveItem
        PROVE  UNCHANGED <<force, budget, unsent, step>>
    BY <1>31 DEF MoveItem
  <1>32. ASSUME Redrive PROVE LateSoFar'
    BY <1>32 DEF TypeOK, Redrive, Arrives
  <1>33. CASE UNCHANGED vars
    BY <1>33 DEF vars, queueVars, contactVars, actorVars, history, bounds
  <1> QED
    BY <1>1, <1>2, <1>3, <1>4, <1>5, <1>6, <1>7, <1>8, <1>9, <1>10, <1>11, <1>12, <1>13,
       <1>14, <1>15, <1>16, <1>17, <1>18, <1>19, <1>20, <1>21, <1>22, <1>23, <1>24,
       <1>25, <1>26, <1>27, <1>28, <1>29, <1>30, <1>31, <1>32, <1>33
    DEF Next, Turn, Statement, Route

(* A case moves with the job of its answer, or after its alert. *)
LEMMA AnswerInv ==
  ASSUME TypeOK, OneLane, Busy, Escalations, AnswerTakesEffect, [Next]_vars PROVE AnswerTakesEffect'
  <1> USE DEF queueVars, history, AnswerTakesEffect, ReplyAction
  <1>1. ASSUME NEW i \in Inbound, NEW b \in BOOLEAN, Receive(i, b) PROVE AnswerTakesEffect'
    BY <1>1, Jobs DEF TypeOK, Receive, Queue!Accept
  <1>2. ASSUME NEW p \in Promise, Fire(p) PROVE AnswerTakesEffect'
    BY <1>2, Jobs DEF TypeOK, Fire, Queue!Accept
  <1>3. ASSUME NEW j \in Job, Reap(j) PROVE AnswerTakesEffect'
    <2>1. \A x \in Job : phase[x] # "absent" => phase'[x] # "absent"
      BY <1>3, SettleFacts, Jobs DEF TypeOK, Reap
    <2> QED
      BY <2>1, <1>3, Jobs DEF Reap
  <1>4. ASSUME NEW w \in Worker, NEW j \in Job, Claim(w, j) PROVE AnswerTakesEffect'
    BY <1>4, GrantFacts, Jobs DEF TypeOK, Claim
  <1>5. ASSUME NEW w \in Worker, NEW c \in Case, ModelMovesCase(w, c) PROVE AnswerTakesEffect'
    BY <1>5 DEF TypeOK, ModelMovesCase, Open
  <1>6. ASSUME NEW w \in Worker, Finish(w) PROVE AnswerTakesEffect'
    BY <1>6, SettleFacts, Jobs DEF TypeOK, Finish, Busy
  <1>7. ASSUME NEW w \in Worker, Fail(w) PROVE AnswerTakesEffect'
    <2>1. \A x \in Job : phase[x] # "absent" => phase'[x] # "absent"
      BY <1>7, SettleFacts, Jobs DEF TypeOK, Fail, Busy
    <2> QED
      BY <2>1, <1>7, Jobs DEF Fail
  <1>8. ASSUME NEW a \in Actor, Alert(a) PROVE AnswerTakesEffect'
    BY <1>8 DEF TypeOK, Alert
  <1>9. ASSUME NEW a \in Actor, NEW c \in Case, InsertCase(a, c) PROVE AnswerTakesEffect'
    BY <1>9 DEF TypeOK, InsertCase
  <1>10. ASSUME NEW r \in Request, Escalate(r) PROVE AnswerTakesEffect'
    <2>1. r \in Actor /\ subject[r] \in served
      BY <1>10, Jobs DEF Escalate, Escalations, PastAlert
    <2> QED
      BY <2>1, <1>10 DEF TypeOK, Escalate
  <1>11. ASSUME NEW r \in Request, CloseCase(r) PROVE AnswerTakesEffect'
    BY <1>11 DEF TypeOK, CloseCase
  <1>12. ASSUME NEW c \in Case, NEW action \in ReplyAction, Answer(c, action) PROVE AnswerTakesEffect'
    BY <1>12, Jobs DEF TypeOK, Answer, AnsweredStatus, ReplyAction, Queue!Accept
  <1>13. ASSUME NEW p \in Promise,
               FireFails(p)
        PROVE  UNCHANGED <<phase, case, served>>
    BY <1>13 DEF FireFails
  <1>14. ASSUME NEW w \in Worker,
               Begin(w) \/ ReadContext(w) \/ ModelCalls(w) \/ Gate(w) \/
               Deliver(w)
        PROVE  UNCHANGED <<phase, case, served>>
    BY <1>14 DEF Begin, ReadContext, ModelCalls, Gate, Deliver
  <1>15. ASSUME NEW a \in Actor,
               SetForce(a) \/ Silence(a) \/ CancelCrons(a) \/
               LookForCase(a) \/ LookForPromise(a) \/ Die(a)
        PROVE  UNCHANGED <<phase, case, served>>
    BY <1>15 DEF SetForce, Silence, CancelCrons, LookForCase, LookForPromise, Die
  <1>16. ASSUME NEW a \in Actor, NEW p \in Promise,
               InsertPromise(a, p)
        PROVE  UNCHANGED <<phase, case, served>>
    BY <1>16 DEF InsertPromise
  <1>17. ASSUME NEW r \in Request, NEW c \in Case,
               AskEscalation(r, c)
        PROVE  UNCHANGED <<phase, case, served>>
    BY <1>17 DEF AskEscalation
  <1>18. ASSUME NEW r \in Request,
               AskReturn(r) \/ Unsilence(r) \/ Unforce(r) \/ Cancel(r)
        PROVE  UNCHANGED <<phase, case, served>>
    BY <1>18 DEF AskReturn, Unsilence, Unforce, Cancel
  <1>19. ASSUME NEW r \in Request, NEW p \in Promise,
               AskCancel(r, p)
        PROVE  UNCHANGED <<phase, case, served>>
    BY <1>19 DEF AskCancel
  <1>20. ASSUME MoveItem \/ Redrive
        PROVE  UNCHANGED <<phase, case, served>>
    BY <1>20 DEF MoveItem, Redrive
  <1>21. CASE UNCHANGED vars
    BY <1>21 DEF vars, queueVars, contactVars, actorVars, history, bounds
  <1> QED
    BY <1>1, <1>2, <1>3, <1>4, <1>5, <1>6, <1>7, <1>8, <1>9, <1>10, <1>11, <1>12, <1>13,
       <1>14, <1>15, <1>16, <1>17, <1>18, <1>19, <1>20, <1>21
    DEF Next, Turn, Statement, Route

(* Until its alert a handoff is in progress, or it was cut short. *)
LEMMA HeardInv ==
  ASSUME TypeOK, HandoffIsHeard, [Next]_vars PROVE HandoffIsHeard'
  <1> USE DEF contactVars, actorVars, history, HandoffIsHeard, HandoffStep
  <1>1. ASSUME NEW w \in Worker, NEW j \in Job, Claim(w, j) PROVE HandoffIsHeard'
    BY <1>1, Jobs DEF TypeOK, Claim, Start
  <1>2. ASSUME NEW w \in Worker, Begin(w) PROVE HandoffIsHeard'
    BY <1>2, Jobs DEF TypeOK, Begin, Go
  <1>3. ASSUME NEW w \in Worker, ReadContext(w) PROVE HandoffIsHeard'
    BY <1>3, Jobs DEF TypeOK, ReadContext
  <1>4. ASSUME NEW w \in Worker, ModelCalls(w) PROVE HandoffIsHeard'
    BY <1>4, Jobs DEF TypeOK, ModelCalls, Go
  <1>5. ASSUME NEW w \in Worker, Gate(w) PROVE HandoffIsHeard'
    BY <1>5, Jobs DEF TypeOK, Gate, Go
  <1>6. ASSUME NEW w \in Worker, Deliver(w) PROVE HandoffIsHeard'
    BY <1>6, Jobs DEF TypeOK, Deliver, Go
  <1>7. ASSUME NEW w \in Worker, Finish(w) PROVE HandoffIsHeard'
    BY <1>7, Jobs DEF TypeOK, Finish, Quit
  <1>8. ASSUME NEW w \in Worker, Fail(w) PROVE HandoffIsHeard'
    BY <1>8, Jobs DEF TypeOK, Fail, Quit, Interrupted
  <1>9. ASSUME NEW a \in Actor, SetForce(a) PROVE HandoffIsHeard'
    BY <1>9, Jobs DEF TypeOK, SetForce, Go
  <1>10. ASSUME NEW a \in Actor, Silence(a) PROVE HandoffIsHeard'
    BY <1>10, Jobs DEF TypeOK, Silence, Go
  <1>11. ASSUME NEW a \in Actor, CancelCrons(a) PROVE HandoffIsHeard'
    BY <1>11, Jobs DEF TypeOK, CancelCrons, Go
  <1>12. ASSUME NEW a \in Actor, Alert(a) PROVE HandoffIsHeard'
    BY <1>12, Jobs DEF TypeOK, Alert, AlertItem, Go
  <1>13. ASSUME NEW a \in Actor, LookForCase(a) PROVE HandoffIsHeard'
    BY <1>13, Jobs DEF TypeOK, LookForCase, Go, Quit, Return
  <1>14. ASSUME NEW a \in Actor, NEW c \in Case, InsertCase(a, c) PROVE HandoffIsHeard'
    BY <1>14, Jobs DEF TypeOK, InsertCase, Go, Quit, Return
  <1>15. ASSUME NEW a \in Actor, LookForPromise(a) PROVE HandoffIsHeard'
    BY <1>15, Jobs DEF TypeOK, LookForPromise, Start, Go
  <1>16. ASSUME NEW a \in Actor, NEW p \in Promise, InsertPromise(a, p) PROVE HandoffIsHeard'
    BY <1>16, Jobs DEF TypeOK, InsertPromise, Go, Quit, Return
  <1>17. ASSUME NEW a \in Actor, Die(a) PROVE HandoffIsHeard'
    BY <1>17, Jobs DEF TypeOK, Die, Quit, Interrupted
  <1>18. ASSUME NEW r \in Request, NEW c \in Case, AskEscalation(r, c) PROVE HandoffIsHeard'
    BY <1>18, Jobs DEF TypeOK, AskEscalation, Start
  <1>19. ASSUME NEW r \in Request, Escalate(r) PROVE HandoffIsHeard'
    BY <1>19, Jobs DEF TypeOK, Escalate, Quit
  <1>20. ASSUME NEW r \in Request, AskReturn(r) PROVE HandoffIsHeard'
    BY <1>20, Jobs DEF TypeOK, AskReturn, Start
  <1>21. ASSUME NEW r \in Request, Unsilence(r) PROVE HandoffIsHeard'
    BY <1>21, Jobs DEF TypeOK, Unsilence, Go, Quit
  <1>22. ASSUME NEW r \in Request, CloseCase(r) PROVE HandoffIsHeard'
    BY <1>22, Jobs DEF TypeOK, CloseCase, Go
  <1>23. ASSUME NEW r \in Request, Unforce(r) PROVE HandoffIsHeard'
    BY <1>23, Jobs DEF TypeOK, Unforce, Quit
  <1>24. ASSUME NEW r \in Request, NEW p \in Promise, AskCancel(r, p) PROVE HandoffIsHeard'
    BY <1>24, Jobs DEF TypeOK, AskCancel, Start
  <1>25. ASSUME NEW r \in Request, Cancel(r) PROVE HandoffIsHeard'
    BY <1>25, Jobs DEF TypeOK, Cancel, Quit
  <1>26. ASSUME NEW i \in Inbound, NEW b \in BOOLEAN,
               Receive(i, b)
        PROVE  UNCHANGED <<force, heard, cut, step>>
    BY <1>26 DEF Receive
  <1>27. ASSUME NEW p \in Promise,
               Fire(p) \/ FireFails(p)
        PROVE  UNCHANGED <<force, heard, cut, step>>
    BY <1>27 DEF Fire, FireFails
  <1>28. ASSUME NEW j \in Job,
               Reap(j)
        PROVE  UNCHANGED <<force, heard, cut, step>>
    BY <1>28 DEF Reap
  <1>29. ASSUME NEW w \in Worker, NEW c \in Case,
               ModelMovesCase(w, c)
        PROVE  UNCHANGED <<force, heard, cut, step>>
    BY <1>29 DEF ModelMovesCase
  <1>30. ASSUME NEW c \in Case, NEW action \in ReplyAction,
               Answer(c, action)
        PROVE  UNCHANGED <<force, heard, cut, step>>
    BY <1>30 DEF Answer
  <1>31. ASSUME MoveItem \/ Redrive
        PROVE  UNCHANGED <<force, heard, cut, step>>
    BY <1>31 DEF MoveItem, Redrive
  <1>32. CASE UNCHANGED vars
    BY <1>32 DEF vars, queueVars, contactVars, actorVars, history, bounds
  <1> QED
    BY <1>1, <1>2, <1>3, <1>4, <1>5, <1>6, <1>7, <1>8, <1>9, <1>10, <1>11, <1>12, <1>13,
       <1>14, <1>15, <1>16, <1>17, <1>18, <1>19, <1>20, <1>21, <1>22, <1>23, <1>24,
       <1>25, <1>26, <1>27, <1>28, <1>29, <1>30, <1>31, <1>32
    DEF Next, Turn, Statement, Route

(* Every step keeps the types. *)
LEMMA TypeInv ==
  ASSUME TypeOK, OneLane, Busy, Escalations, [Next]_vars PROVE TypeOK'
  <1> USE DEF queueVars, contactVars, actorVars, history, bounds, Step, HandoffStep, CaseStatus, Open, Queue!Verdict
  <1>1. ASSUME NEW i \in Inbound, NEW b \in BOOLEAN, Receive(i, b) PROVE TypeOK'
    BY <1>1, Jobs DEF TypeOK, Receive, Queue!Accept
  <1>2. ASSUME NEW p \in Promise, Fire(p) PROVE TypeOK'
    BY <1>2, Jobs DEF TypeOK, Fire, Queue!Accept
  <1>3. ASSUME NEW p \in Promise, FireFails(p) PROVE TypeOK'
    BY <1>3, BoundsAssumption DEF TypeOK, FireFails
  <1>4. ASSUME NEW j \in Job, Reap(j) PROVE TypeOK'
    BY <1>4, SettleFacts DEF TypeOK, Reap, Queue!Verdict
  <1>5. ASSUME NEW w \in Worker, NEW j \in Job, Claim(w, j) PROVE TypeOK'
    BY <1>5, GrantFacts, Jobs DEF TypeOK, Claim, Start
  <1>6. ASSUME NEW w \in Worker, Begin(w) PROVE TypeOK'
    BY <1>6, Jobs DEF TypeOK, Begin, Go
  <1>7. ASSUME NEW w \in Worker, ReadContext(w) PROVE TypeOK'
    BY <1>7, Jobs DEF TypeOK, ReadContext
  <1>8. ASSUME NEW w \in Worker, ModelCalls(w) PROVE TypeOK'
    BY <1>8, Jobs DEF TypeOK, ModelCalls, Go
  <1>9. ASSUME NEW w \in Worker, Gate(w) PROVE TypeOK'
    BY <1>9, Jobs DEF TypeOK, Gate, Go
  <1>10. ASSUME NEW w \in Worker, Deliver(w) PROVE TypeOK'
    BY <1>10, Jobs, BoundsAssumption DEF TypeOK, Deliver, Arrives, Go
  <1>11. ASSUME NEW w \in Worker, NEW c \in Case, ModelMovesCase(w, c) PROVE TypeOK'
    BY <1>11, Jobs DEF TypeOK, ModelMovesCase
  <1>12. ASSUME NEW w \in Worker, Finish(w) PROVE TypeOK'
    BY <1>12, SettleFacts, Jobs DEF TypeOK, Finish, Busy, Quit
  <1>13. ASSUME NEW w \in Worker, Fail(w) PROVE TypeOK'
    <2>1. phase' \in [Job -> {"absent", "waiting", "leased"} \cup Queue!Verdict] /\ lane' = lane
          /\ alerted' \subseteq Job
      BY <1>13, SettleFacts, Jobs DEF TypeOK, Fail, Busy
    <2>2. mishaps' \in 0..MaxMishaps
      BY <1>13, BoundsAssumption DEF TypeOK, Fail
    <2> QED
      BY <2>1, <2>2, <1>13, Jobs DEF TypeOK, Fail, Quit, Interrupted
  <1>14. ASSUME NEW a \in Actor, SetForce(a) PROVE TypeOK'
    <2>1. CASE force
      BY <1>14, <2>1, Jobs DEF TypeOK, SetForce, Go
    <2>2. CASE ~force
      <3>1. heard' = FALSE /\ cut' = FALSE /\ budget' = unsent + 1 /\ served' = served
        BY <1>14, <2>2 DEF SetForce
      <3>2. heard' \in BOOLEAN /\ cut' \in BOOLEAN
        BY <3>1, Zenon
      <3>3. budget' \in Int /\ served' \subseteq Case
        BY <3>1, SMT DEF TypeOK
      <3>4. queueVars' = queueVars /\ step' = [step EXCEPT ![a] = "silence"]
            /\ subject' = subject /\ resume' = resume /\ force' = TRUE /\ silenced' = silenced
            /\ asks' = asks /\ inbox' = inbox /\ unsent' = unsent /\ case' = case /\ promise' = promise
            /\ bounds' = bounds
        BY <1>14 DEF SetForce, Go
      <3>5. force' \in BOOLEAN /\ silenced' \in BOOLEAN /\ asks' \in BOOLEAN
        BY <3>4, Zenon DEF TypeOK
      <3>6. step' \in [Actor -> Step]
        BY <3>4, Jobs DEF TypeOK
      <3> QED
        BY <3>2, <3>3, <3>4, <3>5, <3>6 DEF TypeOK
    <2> QED
      BY <2>1, <2>2
  <1>15. ASSUME NEW a \in Actor, Silence(a) PROVE TypeOK'
    BY <1>15, Jobs DEF TypeOK, Silence, Go
  <1>16. ASSUME NEW a \in Actor, CancelCrons(a) PROVE TypeOK'
    BY <1>16, Jobs DEF TypeOK, CancelCrons, Go, Enabled
  <1>17. ASSUME NEW a \in Actor, Alert(a) PROVE TypeOK'
    BY <1>17, Jobs DEF TypeOK, Alert, AlertItem, Go, Escalations
  <1>18. ASSUME NEW a \in Actor, LookForCase(a) PROVE TypeOK'
    BY <1>18, Jobs DEF TypeOK, LookForCase, Go, Quit, Return
  <1>19. ASSUME NEW a \in Actor, NEW c \in Case, InsertCase(a, c) PROVE TypeOK'
    BY <1>19, Jobs DEF TypeOK, InsertCase, Go, Quit, Return
  <1>20. ASSUME NEW a \in Actor, LookForPromise(a) PROVE TypeOK'
    BY <1>20, Jobs DEF TypeOK, LookForPromise, Start, Go
  <1>21. ASSUME NEW a \in Actor, NEW p \in Promise, InsertPromise(a, p) PROVE TypeOK'
    BY <1>21, Jobs DEF TypeOK, InsertPromise, Go, Quit, Return
  <1>22. ASSUME NEW a \in Actor, Die(a) PROVE TypeOK'
    BY <1>22, Jobs, BoundsAssumption DEF TypeOK, Die, Quit, Interrupted
  <1>23. ASSUME NEW r \in Request, NEW c \in Case, AskEscalation(r, c) PROVE TypeOK'
    BY <1>23, Jobs DEF TypeOK, AskEscalation, Start
  <1>24. ASSUME NEW r \in Request, Escalate(r) PROVE TypeOK'
    BY <1>24, Jobs DEF TypeOK, Escalate, Quit
  <1>25. ASSUME NEW r \in Request, AskReturn(r) PROVE TypeOK'
    BY <1>25, Jobs, BoundsAssumption DEF TypeOK, AskReturn, Start
  <1>26. ASSUME NEW r \in Request, Unsilence(r) PROVE TypeOK'
    BY <1>26, Jobs DEF TypeOK, Unsilence, Go, Quit
  <1>27. ASSUME NEW r \in Request, CloseCase(r) PROVE TypeOK'
    BY <1>27, Jobs, BoundsAssumption DEF TypeOK, CloseCase, Go, OpenCases
  <1>28. ASSUME NEW r \in Request, Unforce(r) PROVE TypeOK'
    <2>1. heard' = FALSE /\ cut' = FALSE /\ force' = FALSE /\ budget' = 0
      BY <1>28 DEF Unforce
    <2>2. heard' \in BOOLEAN /\ cut' \in BOOLEAN /\ force' \in BOOLEAN
      BY <2>1, Zenon
    <2>3. budget' \in Int
      BY <2>1
    <2>4. step' \in [Actor -> Step] /\ subject' \in [Actor -> Job \cup Case \cup {None}]
          /\ resume' \in [Actor -> {"finish", "model", "escalate", "idle"}]
      BY <1>28, Jobs DEF TypeOK, Unforce, Quit
    <2> QED
      BY <1>28, <2>2, <2>3, <2>4 DEF TypeOK, Unforce
  <1>29. ASSUME NEW r \in Request, NEW p \in Promise, AskCancel(r, p) PROVE TypeOK'
    BY <1>29, Jobs DEF TypeOK, AskCancel, Start
  <1>30. ASSUME NEW r \in Request, Cancel(r) PROVE TypeOK'
    BY <1>30, Jobs DEF TypeOK, Cancel, Quit, MarkCancelled
  <1>31. ASSUME NEW c \in Case, NEW action \in ReplyAction, Answer(c, action) PROVE TypeOK'
    BY <1>31, Jobs DEF TypeOK, Answer, Queue!Accept, AnsweredStatus, ReplyAction
  <1>32. ASSUME MoveItem PROVE TypeOK'
    BY <1>32, Jobs DEF TypeOK, MoveItem
  <1>33. ASSUME Redrive PROVE TypeOK'
    BY <1>33, BoundsAssumption DEF TypeOK, Redrive, Arrives
  <1>34. CASE UNCHANGED vars
    BY <1>34 DEF vars, queueVars, contactVars, actorVars, history, bounds, TypeOK
  <1> QED
    BY <1>1, <1>2, <1>3, <1>4, <1>5, <1>6, <1>7, <1>8, <1>9, <1>10, <1>11, <1>12, <1>13,
       <1>14, <1>15, <1>16, <1>17, <1>18, <1>19, <1>20, <1>21, <1>22, <1>23, <1>24,
       <1>25, <1>26, <1>27, <1>28, <1>29, <1>30, <1>31, <1>32, <1>33, <1>34
    DEF Next, Turn, Statement, Route

LEMMA InitInv == Init => IInv
  <1> SUFFICES ASSUME Init PROVE IInv
    OBVIOUS
  <1>1. TypeOK
    <2>1. phase \in [Job -> {"absent", "waiting", "leased"} \cup Queue!Verdict]
          /\ lane \in [Job -> {Lead, None}] /\ alerted \subseteq Job
      BY DEF Init, Queue!Init
    <2>2. mishaps \in 0..MaxMishaps /\ returns \in 0..MaxReturns
          /\ unsent \in 0..MaxUnsent /\ budget \in Int
      BY BoundsAssumption DEF Init
    <2> QED
      BY <2>1, <2>2 DEF Init, TypeOK, Step, CaseStatus
  <1>2. OneLane /\ Busy /\ OneTurn /\ Fired
    BY Jobs DEF Init, Queue!Init, OneLane, Busy, OneTurn, Fired
  <1>3. Escalations /\ LateSoFar /\ AnswerTakesEffect /\ HandoffIsHeard
    BY Jobs DEF Init, Escalations, PastAlert, LateSoFar, AnswerTakesEffect, HandoffIsHeard
  <1> QED
    BY <1>1, <1>2, <1>3 DEF IInv

LEMMA Invariance == Spec => []IInv
  <1>1. IInv /\ [Next]_vars => IInv'
    BY TypeInv, OneLaneInv, BusyInv, OneTurnInv, EscalationsInv, FiredInv, LateInv,
       AnswerInv, HeardInv DEF IInv
  <1> QED
    BY <1>1, InitInv, PTL DEF Spec

(* The state of the contact, its jobs, cases, promises and actors is well  *)
(* typed in every reachable state.                                         *)
THEOREM TypeCorrect == Spec => []TypeOK
  <1>1. IInv => TypeOK
    BY DEF IInv
  <1> QED
    BY <1>1, Invariance, PTL

(* A contact is not left to a person who was never told, unless the actor  *)
(* of its handoff was cut short.                                           *)
THEOREM HandoffsAreHeard == Spec => []HandoffIsHeard
  <1>1. IInv => HandoffIsHeard
    BY DEF IInv
  <1> QED
    BY <1>1, Invariance, PTL

(* After force_human is set the contact gets at most the messages that     *)
(* were already queued for it and the one past its gate, for any number of *)
(* workers, of queued messages and of people who set it.                   *)
THEOREM OneLateMessageAtMost == Spec => []LateMessagesWereWaiting
  <1>1. IInv => LateMessagesWereWaiting
    BY DEF IInv, LateSoFar, LateMessagesWereWaiting
  <1> QED
    BY <1>1, Invariance, PTL

(* A cancelled return has no job, whatever cancels, fires or hands off.    *)
THEOREM CancelledReturnsNeverFired == Spec => []CancelledMeansUnfired
  <1>1. IInv => CancelledMeansUnfired
    BY Jobs DEF IInv, TypeOK, Fired, CancelledMeansUnfired
  <1> QED
    BY <1>1, Invariance, PTL

(* The answer of a person to a case is never only a status.                *)
THEOREM AnswersTakeEffect == Spec => []AnswerTakesEffect
  <1>1. IInv => AnswerTakesEffect
    BY DEF IInv
  <1> QED
    BY <1>1, Invariance, PTL

(* A turn that ends, well or badly, gives its lease back to the queue.     *)
LEMMA SettleIsRelease ==
  ASSUME TypeOK, NEW j, NEW verdict \in Queue!Verdict \cup {"waiting"}, Settle(j, verdict)
  PROVE  Queue!Next
  <1>1. [phase EXCEPT ![j] = verdict] \in [Job -> {"absent", "waiting", "leased"} \cup Queue!Verdict]
    BY DEF TypeOK, Queue!Verdict
  <1> QED
    BY <1>1 DEF Settle, Queue!Next

(* Every step of turns, requests and people leaves the queue alone or is   *)
(* one of its own.                                                         *)
LEMMA LaneStep == ASSUME IInv, [Next]_vars PROVE [Queue!Next]_(Queue!vars)
  <1> USE DEF Queue!vars
  <1>0. TypeOK
    BY DEF IInv
  <1>1. CASE UNCHANGED queueVars
    BY <1>1 DEF queueVars
  <1>2. CASE \/ \E i \in Inbound, b \in BOOLEAN : Receive(i, b)
             \/ \E p \in Promise : Fire(p)
             \/ \E c \in Case, action \in ReplyAction : Answer(c, action)
    <2>1. PICK j \in Job : Queue!Accept(j, Lead)
      BY <1>2, Jobs DEF Receive, Fire, Answer
    <2> QED
      BY <2>1 DEF Queue!Next
  <1>3. CASE \E w \in Worker, j \in Job : Claim(w, j)
    <2>1. PICK j \in Job : Queue!Grant({j})
      BY <1>3 DEF Claim
    <2> QED
      BY <2>1 DEF Queue!Next
  <1>4. CASE (\E j \in Job : Reap(j)) \/ (\E w \in Worker : Fail(w) \/ Finish(w))
    <2>1. PICK j, verdict : verdict \in Queue!Verdict \cup {"waiting"} /\ Settle(j, verdict)
      BY <1>4 DEF Reap, Fail, Finish, Queue!Verdict
    <2> QED
      BY <1>0, <2>1, SettleIsRelease
  <1>5. CASE \/ \E p \in Promise : FireFails(p)
             \/ \E w \in Worker : \/ Begin(w) \/ ReadContext(w) \/ ModelCalls(w) \/ Gate(w) \/ Deliver(w)
                                  \/ \E c \in Case : ModelMovesCase(w, c)
             \/ \E a \in Actor : Statement(a)
             \/ \E r \in Request : Route(r)
             \/ MoveItem \/ Redrive \/ UNCHANGED vars
    <2>1. UNCHANGED queueVars
      BY <1>5
      DEF FireFails, Begin, ReadContext, ModelCalls, Gate, Deliver, ModelMovesCase, Statement, Route,
          SetForce, Silence, CancelCrons, Alert, LookForCase, InsertCase, LookForPromise,
          InsertPromise, Die, AskEscalation, Escalate, AskReturn, Unsilence, CloseCase, Unforce,
          AskCancel, Cancel, MoveItem, Redrive, vars
    <2> QED
      BY <1>1, <2>1
  <1> QED
    BY <1>2, <1>3, <1>4, <1>5 DEF Next, Turn

(* Messages, fired returns, answers to cases, turns that end badly and the *)
(* reaper use the jobs of a contact only as the queue promises it.         *)
THEOREM HandoffUsesTheQueue == Spec => Queue!Spec
  <1>1. Init => Queue!Init
    BY DEF Init
  <1>2. IInv /\ [Next]_vars => [Queue!Next]_(Queue!vars)
    BY LaneStep
  <1> QED
    BY <1>1, <1>2, Invariance, PTL DEF Spec, Queue!Spec
=============================================================================
