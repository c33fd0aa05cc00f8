------------------------- MODULE PublicationProofs -------------------------
(***************************************************************************)
(* Proofs about Publication, for any number of platforms, snapshots,       *)
(* workers, clients, attempts and faults, in both modes: no publication is *)
(* stranded without a cause, none is replayed without one, and a rejection *)
(* stands unless a status write went over it.                              *)
(***************************************************************************)
EXTENDS Publication, FiniteSetTheorems, TLAPS

Outcome == {"ok", "terminal", "retry"}
RowStatus == {"scheduled", "published", "failed", "retrying", "reconcile_required"}

(* Statuses of a publication that is on its way, and those from which it   *)
(* may be executed.                                                        *)
Active == {"queued", "retrying", "publishing", "scheduled", "reconcile_required"}
Executable == {"absent", "queued", "retrying"}

(* What a worker has in hand, by the step it is at. *)
Entering == [pc : {"done", "refuse", "hand", "guard", "mark", "call"}, task : Task,
             ref : BOOLEAN, guarded : BOOLEAN, outcome : Outcome]
Handing == [pc : {"hand"}, task : Task, outcome : Outcome, guarded : BOOLEAN]
Writing == [pc : {"write"}, task : Task, row : RowStatus, next : {"hand", "end"},
            ref : BOOLEAN, outcome : Outcome, guarded : BOOLEAN]
Putting == [pc : {"put"}, task : Task, next : {"hand", "end"}, outcome : Outcome,
            guarded : BOOLEAN, derived : Publishable]
Handler == {Idle} \cup Entering \cup Handing \cup Writing \cup Putting

(* What an API call has in hand. *)
Call == [pc : {"ensure", "enter", "enqueue", "mark", "status"}, approval : 0..MaxApprovals,
         todo : SUBSET Key, created : SUBSET Key]

(* TypeOK with the shape of every local state; a background job that waits *)
(* has attempts left.                                                      *)
Shaped ==
  /\ TypeOK
  /\ worker \in [Worker -> Handler]
  /\ client \in [Client -> {Idle} \cup Call]
  /\ \A t \in Task : queue[t] > 0 => t.attempts < MaxAttempts[t.kind]

(* A worker that will still write the row, enqueue its reconciliation or   *)
(* have its background job tried again; not one that is about to end.      *)
GoesOn(w, k) ==
  /\ worker[w] # Idle /\ worker[w].task.key = k
  /\ \/ worker[w].pc \in {"guard", "mark", "call", "hand", "write"}
     \/ worker[w].pc = "put" /\ (worker[w].next = "hand" \/ worker[w].outcome = "retry")

Waiting(k) == \E t \in Task : t.key = k /\ queue[t] > 0
Kept(k) ==
  \/ Waiting(k)
  \/ \E w \in Worker : GoesOn(w, k)
  \/ \E c \in Client : client[c] # Idle /\ client[c].pc # "mark" /\ k \in client[c].created

(* Somebody who goes on looks at every publication on its way, and who     *)
(* writes such a status goes on.                                           *)
Minded ==
  /\ \A k \in Key : job[k].status \in Active => Kept(k) \/ k \in abandoned
  /\ \A w \in Worker : worker[w].pc = "write" /\ worker[w].row \in Active =>
       worker[w].next = "hand" \/ worker[w].outcome = "retry"

(* Workers that call the provider to execute k, or are about to make it    *)
(* executable again.                                                       *)
Holds(w, k) ==
  /\ worker[w] # Idle /\ worker[w].task.key = k
  /\ \/ worker[w].pc = "call" /\ worker[w].task.kind = "execute"
     \/ worker[w].pc = "write" /\ worker[w].row = "retrying"
Holders(k) == {w \in Worker : Holds(w, k)}
Open(k) == IF job[k].status \in Executable THEN 1 ELSE 0

(* Every such worker, and the row while it is executable, has a cause left. *)
Credited == \A k \in Key : Open(k) + Cardinality(Holders(k)) <= credit[k]

(* After a rejection the content is in review until a write goes over it.  *)
Standing == verdict = "rejected" /\ ~revived => status \in InReview

IInv == Shaped /\ Minded /\ Credited /\ Standing

-----------------------------------------------------------------------------
(* A background job is a record with bounded attempts. *)
LEMMA TaskShape ==
  \A t : t \in Task <=> /\ t \in [kind : Kind, key : Key, attempts : Nat]
                        /\ t.attempts <= MaxAttempts[t.kind]
  <1>1. \A q \in Kind : MaxAttempts[q] \in Nat
    BY AttemptsAssumption
  <1>2. ASSUME NEW t \in Task
        PROVE t \in [kind : Kind, key : Key, attempts : Nat] /\ t.attempts <= MaxAttempts[t.kind]
    BY <1>1, <1>2 DEF Task
  <1>3. ASSUME NEW t \in [kind : Kind, key : Key, attempts : Nat], t.attempts <= MaxAttempts[t.kind]
        PROVE t \in Task
    <2>1. t \in [kind : {t.kind}, key : Key, attempts : 0..MaxAttempts[t.kind]] /\ t.kind \in Kind
      BY <1>1, <1>3
    <2> QED
      BY <2>1 DEF Task
  <1> QED
    BY <1>2, <1>3

(* The step a worker is at tells what it has in hand. *)
LEMMA Hands ==
  ASSUME Shaped, NEW w \in Worker
  PROVE /\ worker[w] # Idle <=> worker[w].pc # "idle"
        /\ worker[w].pc \in {"done", "refuse", "guard", "mark", "call"} => worker[w] \in Entering
        /\ worker[w].pc = "write" => worker[w] \in Writing
        /\ worker[w].pc = "put" => worker[w] \in Putting
        /\ worker[w] # Idle => /\ worker[w].task \in Task /\ worker[w].task.key \in Key
                               /\ worker[w].task.kind \in Kind
                               /\ worker[w].outcome \in Outcome /\ worker[w].guarded \in BOOLEAN
  <1>1. worker[w] \in Handler
    BY DEF Shaped
  <1>2. CASE worker[w] = Idle
    BY <1>2 DEF Idle
  <1>3. CASE worker[w] \in Entering
    BY <1>3, TaskShape DEF Entering, Idle
  <1>4. CASE worker[w] \in Handing
    BY <1>4, TaskShape DEF Handing, Idle
  <1>5. CASE worker[w] \in Writing
    BY <1>5, TaskShape DEF Writing, Idle
  <1>6. CASE worker[w] \in Putting
    BY <1>6, TaskShape DEF Putting, Idle
  <1> QED
    BY <1>1, <1>2, <1>3, <1>4, <1>5, <1>6 DEF Handler

(* A worker's new state has the right shape. *)
LEMMA WorkerTyped ==
  ASSUME Shaped, NEW w \in Worker, NEW r \in Handler, worker' = [worker EXCEPT ![w] = r]
  PROVE /\ worker' \in [Worker -> Handler] /\ worker'[w] = r
        /\ \A v \in Worker : v # w => worker'[v] = worker[v]
        /\ \A v \in Worker : worker'[v] = Idle \/ worker'[v].task \in Task
  <1>1. /\ worker' \in [Worker -> Handler] /\ worker'[w] = r
        /\ \A v \in Worker : v # w => worker'[v] = worker[v]
    BY DEF Shaped
  <1>2. ASSUME NEW h \in Handler PROVE h = Idle \/ h.task \in Task
    BY <1>2 DEF Handler, Entering, Handing, Writing, Putting
  <1> QED
    BY <1>1, <1>2

(* The keys of publish jobs and the statuses derived from them. *)
LEMMA DerivedTyped == \A S : Derived(S) \in Publishable
  BY DEF Derived, Publishable

(* EndsWith: the worker is idle; a background job to be tried again waits  *)
(* with attempts left, or its key is abandoned.                            *)
LEMMA Ended ==
  ASSUME Shaped, NEW w \in Worker, worker[w] # Idle, NEW o, EndsWith(w, o)
  PROVE /\ worker' = [worker EXCEPT ![w] = Idle]
        /\ queue' \in [Task -> Nat] /\ \A t \in Task : queue'[t] >= queue[t]
        /\ \A t \in Task : queue'[t] > 0 => t.attempts < MaxAttempts[t.kind]
        /\ abandoned \subseteq abandoned' /\ abandoned' \subseteq Key
        /\ o = "retry" => \/ \E t \in Task : t.key = worker[w].task.key /\ queue'[t] > 0
                          \/ worker[w].task.key \in abandoned'
  <1> DEFINE t == worker[w].task
             again == o = "retry" /\ t.attempts < MaxAttempts[t.kind]
  <1>1. /\ worker' = [worker EXCEPT ![w] = Idle]
        /\ queue' = IF again THEN [queue EXCEPT ![t] = @ + 1] ELSE queue
        /\ abandoned' = IF o = "retry" /\ ~again THEN abandoned \cup {t.key} ELSE abandoned
    BY DEF EndsWith, WorkerGoesOn
  <1>2. t \in Task /\ t.key \in Key /\ queue \in [Task -> Nat] /\ abandoned \subseteq Key
    BY Hands DEF Shaped, TypeOK
  <1>3. \A u \in Task : queue[u] > 0 => u.attempts < MaxAttempts[u.kind]
    BY DEF Shaped
  <1> HIDE DEF t
  <1>4. /\ queue' \in [Task -> Nat] /\ \A u \in Task : queue'[u] >= queue[u]
        /\ \A u \in Task : queue'[u] > 0 => u.attempts < MaxAttempts[u.kind]
    BY <1>1, <1>2, <1>3
  <1>5. o = "retry" => (\E u \in Task : u.key = t.key /\ queue'[u] > 0) \/ t.key \in abandoned'
    BY <1>1, <1>2
  <1> QED
    BY <1>1, <1>2, <1>4, <1>5 DEF t

(* Writes: what the worker has in hand afterwards. *)
LEMMA Written ==
  ASSUME Shaped, NEW w \in Worker, worker[w] # Idle, NEW s \in RowStatus,
         NEW n \in {"hand", "end"}, NEW o \in Outcome, NEW g \in BOOLEAN, Writes(w, s, n, o, g)
  PROVE \E r \in Writing : /\ worker' = [worker EXCEPT ![w] = r]
                           /\ r.row = s /\ r.next = n /\ r.outcome = o
                           /\ r.task = worker[w].task
  <1> DEFINE r == [pc |-> "write", task |-> worker[w].task, row |-> s, next |-> n,
                   ref |-> s \in {"scheduled", "published"}, outcome |-> o, guarded |-> g]
  <1>1. worker' = [worker EXCEPT ![w] = r]
    BY DEF Writes, WorkerGoesOn
  <1>2. r \in Writing
    BY Hands DEF Writing
  <1> QED
    BY <1>1, <1>2

(* A step of one worker, for one publication k: everybody else stays, and  *)
(* either somebody still looks at k, or k needs nobody, or nothing         *)
(* happened to k.                                                          *)
LEMMA WorkerMinds ==
  ASSUME Shaped, Minded, NEW w \in Worker, NEW r \in Handler, NEW k \in Key,
         worker' = [worker EXCEPT ![w] = r], UNCHANGED client,
         worker[w] # Idle => worker[w].task.key = k,
         r # Idle => r.task.key = k,
         r.pc = "write" /\ r.row \in Active => r.next = "hand" \/ r.outcome = "retry",
         abandoned \subseteq abandoned',
         \A i \in Key \ {k} : job'[i].status = job[i].status,
         \A t \in Task : t.key # k => queue'[t] >= queue[t],
         queue \in [Task -> Nat], queue' \in [Task -> Nat],
         \/ job'[k].status \notin Active
         \/ k \in abandoned'
         \/ \E t \in Task : t.key = k /\ queue'[t] > 0
         \/ GoesOn(w, k)'
         \/ /\ ~GoesOn(w, k) /\ job'[k].status = job[k].status
            /\ \A t \in Task : queue'[t] >= queue[t]
  PROVE Minded'
  <1>1. worker'[w] = r /\ \A v \in Worker : v # w => worker'[v] = worker[v]
    BY WorkerTyped
  <1>2. \A v \in Worker, i \in Key : v # w => (GoesOn(v, i)' <=> GoesOn(v, i))
    BY <1>1 DEF GoesOn
  <1>3. \A i \in Key \ {k} : ~GoesOn(w, i)
    BY DEF GoesOn
  <1>4. ASSUME NEW i \in Key, Kept(i), ~GoesOn(w, i), \A t \in Task : t.key = i => queue'[t] >= queue[t]
        PROVE Kept(i)'
    <2>1. CASE Waiting(i)
      BY <1>4, <2>1 DEF Kept, Waiting
    <2>2. CASE \E v \in Worker : GoesOn(v, i)
      BY <1>2, <1>4, <2>2 DEF Kept
    <2>3. CASE \E c \in Client : client[c] # Idle /\ client[c].pc # "mark" /\ i \in client[c].created
      BY <2>3 DEF Kept
    <2> QED
      BY <1>4, <2>1, <2>2, <2>3 DEF Kept
  <1>5. ASSUME NEW i \in Key, i # k, job'[i].status \in Active PROVE Kept(i)' \/ i \in abandoned'
    <2>1. Kept(i) \/ i \in abandoned
      BY <1>5 DEF Minded
    <2> QED
      BY <1>3, <1>4, <1>5, <2>1
  <1>6. job'[k].status \in Active => Kept(k)' \/ k \in abandoned'
    <2>1. CASE \E t \in Task : t.key = k /\ queue'[t] > 0
      BY <2>1 DEF Kept, Waiting
    <2>2. CASE GoesOn(w, k)'
      BY <2>2 DEF Kept
    <2>3. CASE /\ ~GoesOn(w, k) /\ job'[k].status = job[k].status
               /\ \A t \in Task : queue'[t] >= queue[t]
      BY <1>4, <2>3 DEF Minded
    <2> QED
      BY <2>1, <2>2, <2>3
  <1>7. \A v \in Worker : worker'[v].pc = "write" /\ worker'[v].row \in Active =>
          worker'[v].next = "hand" \/ worker'[v].outcome = "retry"
    BY <1>1 DEF Minded
  <1> QED
    BY <1>5, <1>6, <1>7 DEF Minded

(* How many workers hold a cause for k when only worker w changes. *)
LEMMA HoldersCount ==
  ASSUME Shaped, NEW w \in Worker, NEW r \in Handler, worker' = [worker EXCEPT ![w] = r],
         NEW k \in Key
  PROVE /\ Cardinality(Holders(k)) \in Nat /\ Cardinality(Holders(k)') \in Nat
        /\ Cardinality(Holders(k)') =
             Cardinality(Holders(k)) + (IF Holds(w, k)' THEN 1 ELSE 0) - (IF Holds(w, k) THEN 1 ELSE 0)
  <1> DEFINE others == {v \in Worker : v # w /\ Holds(v, k)}
  <1>1. \A v \in Worker : v # w => (Holds(v, k)' <=> Holds(v, k))
    BY WorkerTyped DEF Holds
  <1>2. IsFiniteSet(others) /\ w \notin others
    BY WorkersAssumption, FS_Subset
  <1>3. Cardinality(others) \in Nat /\ Cardinality(others \cup {w}) = Cardinality(others) + 1
    BY <1>2, FS_AddElement, FS_CardinalityType
  <1>4. Holders(k) = IF Holds(w, k) THEN others \cup {w} ELSE others
    BY DEF Holders
  <1>5. Holders(k)' = IF Holds(w, k)' THEN others \cup {w} ELSE others
    BY <1>1 DEF Holders
  <1> HIDE DEF others
  <1> QED
    BY <1>3, <1>4, <1>5

(* A step of one worker keeps the causes if it balances its own. *)
LEMMA WorkerCredits ==
  ASSUME Shaped, Credited, NEW w \in Worker, NEW r \in Handler,
         worker' = [worker EXCEPT ![w] = r], credit \in [Key -> Int], credit' \in [Key -> Int],
         \A k \in Key :
           Open(k)' + (IF Holds(w, k)' THEN 1 ELSE 0) + credit[k]
             <= Open(k) + (IF Holds(w, k) THEN 1 ELSE 0) + credit'[k]
  PROVE Credited'
  <1> SUFFICES ASSUME NEW k \in Key PROVE Open(k)' + Cardinality(Holders(k)') <= credit'[k]
    BY DEF Credited
  <1>1. Open(k) \in {0, 1} /\ Open(k)' \in {0, 1}
    BY DEF Open
  <1>2. credit[k] \in Int /\ credit'[k] \in Int
    OBVIOUS
  <1>3. Open(k) + Cardinality(Holders(k)) <= credit[k]
    BY DEF Credited
  <1>4. Open(k)' + (IF Holds(w, k)' THEN 1 ELSE 0) + credit[k]
             <= Open(k) + (IF Holds(w, k) THEN 1 ELSE 0) + credit'[k]
    OBVIOUS
  <1>5. /\ Cardinality(Holders(k)) \in Nat /\ Cardinality(Holders(k)') \in Nat
        /\ Cardinality(Holders(k)') =
             Cardinality(Holders(k)) + (IF Holds(w, k)' THEN 1 ELSE 0) - (IF Holds(w, k) THEN 1 ELSE 0)
    BY HoldersCount
  <1> DEFINE h == IF Holds(w, k) THEN 1 ELSE 0
             g == IF Holds(w, k)' THEN 1 ELSE 0
  <1>6. h \in {0, 1} /\ g \in {0, 1} /\ Open(k)' + g + credit[k] <= Open(k) + h + credit'[k]
        /\ Cardinality(Holders(k)') = Cardinality(Holders(k)) + g - h
    BY <1>4, <1>5
  <1> HIDE DEF h, g
  <1> QED
    BY <1>1, <1>2, <1>3, <1>5, <1>6

JobRow == [status : JobStatus, approval : 0..MaxApprovals, ref : BOOLEAN]

(* Publication writes the status of content in review only by a revival. *)
LEMMA StatusKept ==
  ASSUME TypeOK, Standing, UNCHANGED <<status, revived>> \/ \E s \in Publishable : SetStatus(s)
  PROVE /\ status' \in InReview \cup Publishable /\ revived' \in BOOLEAN
        /\ verdict = "rejected" /\ ~revived' => status' \in InReview
  <1>1. CASE UNCHANGED <<status, revived>>
    BY <1>1 DEF TypeOK, Standing
  <1>2. CASE \E s \in Publishable : SetStatus(s)
    BY <1>2 DEF SetStatus, TypeOK, Standing
  <1> QED
    BY <1>1, <1>2

(* A step of worker w for the publication k preserves the invariant if it  *)
(* leaves everybody else and all other publications alone, keeps k minded  *)
(* and balances its causes.                                                *)
LEMMA WorkerStep ==
  ASSUME IInv, NEW w \in Worker, NEW r \in Handler, NEW k \in Key,
         worker' = [worker EXCEPT ![w] = r], UNCHANGED <<reviewVars, client, calls>>,
         worker[w] # Idle => worker[w].task.key = k,
         r # Idle => r.task.key = k,
         r.pc = "write" /\ r.row \in Active => r.next = "hand" \/ r.outcome = "retry",
         UNCHANGED <<status, revived>> \/ \E s \in Publishable : SetStatus(s),
         job' \in [Key -> JobRow], \A i \in Key \ {k} : job'[i] = job[i],
         queue' \in [Task -> Nat], \A t \in Task : t.key # k => queue'[t] >= queue[t],
         \A t \in Task : queue'[t] > 0 => t.attempts < MaxAttempts[t.kind],
         post' \in [Key -> {"none", "scheduled", "published", "failed"}],
         abandoned \subseteq abandoned', abandoned' \subseteq Key, faults' \in 0..MaxFaults,
         credit' \in [Key -> Int], \A i \in Key \ {k} : credit'[i] = credit[i],
         Open(k)' + (IF Holds(w, k)' THEN 1 ELSE 0) + credit[k]
           <= Open(k) + (IF Holds(w, k) THEN 1 ELSE 0) + credit'[k],
         \/ job'[k].status \notin Active
         \/ k \in abandoned'
         \/ \E t \in Task : t.key = k /\ queue'[t] > 0
         \/ GoesOn(w, k)'
         \/ /\ ~GoesOn(w, k) /\ job'[k].status = job[k].status
            /\ \A t \in Task : queue'[t] >= queue[t]
  PROVE IInv'
  <1>1. Shaped /\ Minded /\ Credited /\ Standing /\ TypeOK
    BY DEF IInv, Shaped
  <1>2. /\ worker' \in [Worker -> Handler] /\ worker'[w] = r
        /\ \A v \in Worker : v # w => worker'[v] = worker[v]
        /\ \A v \in Worker : worker'[v] = Idle \/ worker'[v].task \in Task
    BY <1>1, WorkerTyped
  <1>3. /\ status' \in InReview \cup Publishable /\ revived' \in BOOLEAN
        /\ verdict = "rejected" /\ ~revived' => status' \in InReview
    BY <1>1, StatusKept
  <1>4. TypeOK'
    BY <1>1, <1>2, <1>3 DEF TypeOK, reviewVars, JobRow
  <1>5. Shaped'
    BY <1>1, <1>2, <1>4 DEF Shaped
  <1>6. Minded'
    <2>1. queue \in [Task -> Nat] /\ \A i \in Key \ {k} : job'[i].status = job[i].status
      BY <1>1 DEF TypeOK
    <2> QED
      BY <1>1, <2>1, WorkerMinds
  <1>7. Credited'
    <2>1. ASSUME NEW i \in Key, i # k
          PROVE Open(i)' + (IF Holds(w, i)' THEN 1 ELSE 0) + credit[i]
                  <= Open(i) + (IF Holds(w, i) THEN 1 ELSE 0) + credit'[i]
      <3>1. ~Holds(w, i) /\ ~Holds(w, i)'
        BY <1>2, <2>1 DEF Holds
      <3>2. Open(i)' = Open(i) /\ Open(i) \in Nat
        BY <2>1 DEF Open
      <3>3. credit'[i] = credit[i] /\ credit[i] \in Int
        BY <1>1, <2>1 DEF TypeOK
      <3> QED
        BY <3>1, <3>2, <3>3
    <2>2. \A i \in Key : Open(i)' + (IF Holds(w, i)' THEN 1 ELSE 0) + credit[i]
                           <= Open(i) + (IF Holds(w, i) THEN 1 ELSE 0) + credit'[i]
      BY <2>1
    <2>3. credit \in [Key -> Int]
      BY <1>1 DEF TypeOK
    <2> QED
      BY <1>1, <2>2, <2>3, WorkerCredits
  <1>8. Standing'
    BY <1>3 DEF Standing, reviewVars
  <1> QED
    BY <1>5, <1>6, <1>7, <1>8 DEF IInv

-----------------------------------------------------------------------------
(* Claim: the background job leaves the queue and the worker looks at it,  *)
(* or will end because its publication is not on its way.                  *)
LEMMA ClaimInv == ASSUME IInv, NEW w \in Worker, NEW t \in Task, Claim(w, t) PROVE IInv'
  <1> DEFINE k == t.key
             r == [pc |-> NextOf(t), task |-> [t EXCEPT !.attempts = @ + 1],
                   ref |-> job[k].ref, guarded |-> FALSE, outcome |-> "ok"]
  <1>1. /\ worker[w] = Idle /\ queue[t] > 0 /\ queue' = [queue EXCEPT ![t] = @ - 1]
        /\ worker' = [worker EXCEPT ![w] = r]
        /\ UNCHANGED <<reviewVars, status, revived, job, post, client, historyVars, calls, faults>>
    BY DEF Claim, WorkerGoesOn
  <1>2. Shaped /\ TypeOK
    BY DEF IInv, Shaped
  <1>3. /\ t.attempts < MaxAttempts[t.kind] /\ t \in [kind : Kind, key : Key, attempts : Nat]
        /\ MaxAttempts[t.kind] \in Nat
    BY <1>1, <1>2, TaskShape, AttemptsAssumption DEF Shaped
  <1>4. r.task \in Task /\ r.task.key = k /\ r.task.kind = t.kind /\ k \in Key
    BY <1>3, TaskShape
  <1>5. /\ NextOf(t) \in {"done", "hand", "refuse", "guard"}
        /\ NextOf(t) \in {"done", "refuse"} => job[k].status \notin Active
    BY DEF NextOf, Active
  <1>6. r \in Entering /\ r \in Handler /\ r # Idle /\ r.pc # "write"
    BY <1>2, <1>4, <1>5 DEF Entering, Handler, Outcome, TypeOK, Idle
  <1>7. worker'[w] = r
    BY <1>1, <1>2, <1>6, WorkerTyped
  <1>8. ~Holds(w, k) /\ ~Holds(w, k)' /\ Open(k)' = Open(k) /\ Open(k) \in Nat
    BY <1>1, <1>5, <1>7 DEF Holds, Open
  <1>9. job'[k].status \notin Active \/ GoesOn(w, k)'
    BY <1>1, <1>4, <1>5, <1>6, <1>7 DEF GoesOn
  <1>10. /\ queue' \in [Task -> Nat] /\ \A u \in Task : u.key # k => queue'[u] >= queue[u]
         /\ \A u \in Task : queue'[u] > 0 => u.attempts < MaxAttempts[u.kind]
    BY <1>1, <1>2 DEF Shaped, TypeOK
  <1>11. /\ job' \in [Key -> JobRow] /\ abandoned' \subseteq Key /\ faults' \in 0..MaxFaults
         /\ post' \in [Key -> {"none", "scheduled", "published", "failed"}]
         /\ credit' \in [Key -> Int] /\ credit'[k] = credit[k] /\ credit[k] \in Int
         /\ credit' = credit /\ abandoned' = abandoned
    BY <1>1, <1>2, <1>4 DEF TypeOK, JobRow, historyVars
  <1>12. Open(k)' + (IF Holds(w, k)' THEN 1 ELSE 0) + credit[k]
            <= Open(k) + (IF Holds(w, k) THEN 1 ELSE 0) + credit'[k]
    BY <1>8, <1>11
  <1>13. /\ UNCHANGED <<reviewVars, client, calls>> /\ UNCHANGED <<status, revived>>
         /\ \A i \in Key \ {k} : job'[i] = job[i] /\ credit'[i] = credit[i]
    BY <1>1, <1>11
  <1> HIDE DEF k, r
  <1> QED
    BY <1>1, <1>4, <1>6, <1>9, <1>10, <1>11, <1>12, <1>13, WorkerStep

(* A step that ends the handler: its background job waits again, its key   *)
(* is abandoned, or it did not go on anyway.                               *)
LEMMA EndsInv ==
  ASSUME IInv, NEW w \in Worker, worker[w] # Idle, NEW o, EndsWith(w, o),
         o = "retry" \/ ~GoesOn(w, worker[w].task.key),
         UNCHANGED <<reviewVars, job, post, client, credit, calls>>,
         UNCHANGED <<status, revived>> \/ \E s \in Publishable : SetStatus(s),
         faults' \in 0..MaxFaults
  PROVE IInv'
  <1>1. Shaped /\ TypeOK
    BY DEF IInv, Shaped
  <1>0. PICK k \in Key : k = worker[w].task.key
    BY <1>1, Hands
  <1>2. /\ worker' = [worker EXCEPT ![w] = Idle]
        /\ queue' \in [Task -> Nat] /\ \A t \in Task : queue'[t] >= queue[t]
        /\ \A t \in Task : queue'[t] > 0 => t.attempts < MaxAttempts[t.kind]
        /\ abandoned \subseteq abandoned' /\ abandoned' \subseteq Key
        /\ o = "retry" => (\E t \in Task : t.key = k /\ queue'[t] > 0) \/ k \in abandoned'
    BY <1>0, <1>1, Ended
  <1>3. Idle \in Handler /\ Idle.pc # "write"
    BY DEF Handler, Idle
  <1>4. worker'[w] = Idle
    BY <1>1, <1>2, <1>3, WorkerTyped
  <1>5. ~Holds(w, k)' /\ Open(k)' = Open(k) /\ Open(k) \in Nat
    BY <1>4 DEF Holds, Open
  <1>6. /\ job' \in [Key -> JobRow] /\ credit[k] \in Int /\ credit' \in [Key -> Int]
        /\ post' \in [Key -> {"none", "scheduled", "published", "failed"}]
    BY <1>1, <1>3 DEF TypeOK, JobRow
  <1>7. Open(k)' + (IF Holds(w, k)' THEN 1 ELSE 0) + credit[k]
           <= Open(k) + (IF Holds(w, k) THEN 1 ELSE 0) + credit'[k]
    BY <1>5, <1>6
  <1>8. \/ k \in abandoned'
        \/ \E t \in Task : t.key = k /\ queue'[t] > 0
        \/ /\ ~GoesOn(w, k) /\ job'[k].status = job[k].status
           /\ \A t \in Task : queue'[t] >= queue[t]
    BY <1>0, <1>2
  <1> QED
    BY <1>0, <1>2, <1>3, <1>6, <1>7, <1>8, WorkerStep

(* A step after which the handler writes the row: who will write retrying  *)
(* has a cause for it.                                                     *)
LEMMA WritesInv ==
  ASSUME IInv, NEW w \in Worker, worker[w] # Idle, NEW s \in RowStatus,
         NEW n \in {"hand", "end"}, NEW o \in Outcome, NEW g \in BOOLEAN, Writes(w, s, n, o, g),
         s \in Active => n = "hand" \/ o = "retry",
         UNCHANGED <<reviewVars, status, revived, job, queue, client, abandoned, calls>>,
         post' \in [Key -> {"none", "scheduled", "published", "failed"}], faults' \in 0..MaxFaults,
         credit' \in [Key -> Int],
         \A i \in Key : i # worker[w].task.key => credit'[i] = credit[i],
         (IF s = "retrying" THEN 1 ELSE 0) + credit[worker[w].task.key]
            <= (IF Holds(w, worker[w].task.key) THEN 1 ELSE 0) + credit'[worker[w].task.key]
  PROVE IInv'
  <1>1. Shaped /\ TypeOK
    BY DEF IInv, Shaped
  <1>2. PICK k \in Key : k = worker[w].task.key
    BY <1>1, Hands
  <1>3. PICK r \in Writing : /\ worker' = [worker EXCEPT ![w] = r]
                             /\ r.row = s /\ r.next = n /\ r.outcome = o /\ r.task = worker[w].task
    BY <1>1, Written
  <1>4. r \in Handler /\ r # Idle /\ r.pc = "write" /\ r.task.key = k
    BY <1>2, <1>3 DEF Handler, Writing, Idle
  <1>5. worker'[w] = r
    BY <1>1, <1>3, <1>4, WorkerTyped
  <1>6. GoesOn(w, k)'
    BY <1>4, <1>5 DEF GoesOn
  <1>7. Holds(w, k)' <=> s = "retrying"
    BY <1>3, <1>4, <1>5 DEF Holds
  <1>8. Open(k)' = Open(k) /\ Open(k) \in Nat
    BY DEF Open
  <1>9. credit[k] \in Int /\ credit'[k] \in Int
    BY <1>1 DEF TypeOK
  <1>10. Open(k)' + (IF Holds(w, k)' THEN 1 ELSE 0) + credit[k]
            <= Open(k) + (IF Holds(w, k) THEN 1 ELSE 0) + credit'[k]
    <2>1. (IF s = "retrying" THEN 1 ELSE 0) + credit[k] <= (IF Holds(w, k) THEN 1 ELSE 0) + credit'[k]
      BY <1>2
    <2> QED
      BY <1>7, <1>8, <1>9, <2>1
  <1>11. /\ job' \in [Key -> JobRow] /\ queue' \in [Task -> Nat] /\ abandoned' \subseteq Key
         /\ \A t \in Task : queue'[t] >= queue[t]
         /\ \A t \in Task : queue'[t] > 0 => t.attempts < MaxAttempts[t.kind]
    BY <1>1 DEF TypeOK, Shaped, JobRow
  <1> QED
    BY <1>2, <1>3, <1>4, <1>6, <1>10, <1>11, WorkerStep

(* Finish: the publication needs nobody from here. *)
LEMMA FinishInv == ASSUME IInv, NEW w \in Worker, Finish(w) PROVE IInv'
  <1>1. Shaped /\ TypeOK
    BY DEF IInv, Shaped
  <1>2. worker[w] # Idle
    BY <1>1, Hands DEF Finish
  <1>3. ~GoesOn(w, worker[w].task.key)
    BY DEF Finish, GoesOn
  <1>4. faults' \in 0..MaxFaults
    BY <1>1 DEF Finish, TypeOK
  <1>5. PICK o \in Outcome : EndsWith(w, o)
    BY DEF Finish, Outcome
  <1> QED
    BY <1>2, <1>3, <1>4, <1>5, EndsInv DEF Finish

(* Guard: the handler goes on, ends to be tried again, or fails the row.   *)
LEMMA GuardInv == ASSUME IInv, NEW w \in Worker, Guard(w) PROVE IInv'
  <1> DEFINE t == worker[w].task
  <1>1. Shaped /\ TypeOK
    BY DEF IInv, Shaped
  <1>2. worker[w] # Idle /\ worker[w] \in Entering /\ worker[w].pc = "guard"
    BY <1>1, Hands DEF Guard
  <1>3. PICK k \in Key : k = worker[w].task.key
    BY <1>1, <1>2, Hands
  <1>4. /\ UNCHANGED <<reviewVars, status, revived, job, post, client, credit, calls, faults>>
        /\ \/ /\ worker' = [worker EXCEPT ![w] = [worker[w] EXCEPT
                              !.pc = IF t.kind = "execute" THEN "mark" ELSE "call"]]
              /\ UNCHANGED <<queue, abandoned>>
           \/ EndsWith(w, "retry")
           \/ /\ \E g \in BOOLEAN : Writes(w, "failed", "end", "terminal", g)
              /\ UNCHANGED <<queue, abandoned>>
    BY DEF Guard, WorkerGoesOn
  <1>5. /\ faults' \in 0..MaxFaults /\ credit' \in [Key -> Int] /\ credit[k] \in Int
        /\ post' \in [Key -> {"none", "scheduled", "published", "failed"}]
    BY <1>1, <1>4 DEF TypeOK
  <1>6. ~Holds(w, k)
    BY <1>2 DEF Holds
  <1>7. CASE EndsWith(w, "retry")
    BY <1>2, <1>4, <1>5, <1>7, EndsInv
  <1>8. CASE /\ \E g \in BOOLEAN : Writes(w, "failed", "end", "terminal", g)
             /\ UNCHANGED <<queue, abandoned>>
    <2>1. PICK g \in BOOLEAN : Writes(w, "failed", "end", "terminal", g)
      BY <1>8
    <2>2. "failed" \in RowStatus /\ "failed" \notin Active /\ "terminal" \in Outcome
      BY DEF RowStatus, Active, Outcome
    <2>3. (IF "failed" = "retrying" THEN 1 ELSE 0) + credit[worker[w].task.key]
            <= (IF Holds(w, worker[w].task.key) THEN 1 ELSE 0) + credit'[worker[w].task.key]
      BY <1>3, <1>4, <1>5
    <2> QED
      BY <1>2, <1>4, <1>5, <1>8, <2>1, <2>2, <2>3, WritesInv
  <1>9. CASE /\ worker' = [worker EXCEPT ![w] = [worker[w] EXCEPT
                             !.pc = IF t.kind = "execute" THEN "mark" ELSE "call"]]
             /\ UNCHANGED <<queue, abandoned>>
    <2>1. PICK r \in Entering : /\ worker' = [worker EXCEPT ![w] = r] /\ r.task = worker[w].task
                                /\ r.pc = IF worker[w].task.kind = "execute" THEN "mark" ELSE "call"
      <3>1. PICK p \in {"mark", "call"} : p = IF worker[w].task.kind = "execute" THEN "mark" ELSE "call"
        OBVIOUS
      <3>2. PICK h \in Entering : h = worker[w]
        BY <1>2
      <3>3. [h EXCEPT !.pc = p] \in Entering /\ [h EXCEPT !.pc = p].task = h.task
              /\ [h EXCEPT !.pc = p].pc = p
        BY DEF Entering
      <3>4. worker' = [worker EXCEPT ![w] = [h EXCEPT !.pc = p]]
        BY <1>9, <3>1, <3>2
      <3> QED
        BY <3>1, <3>2, <3>3, <3>4
    <2>2. r \in Handler /\ r # Idle /\ r.pc \in {"mark", "call"} /\ r.task.key = k
      BY <1>3, <2>1 DEF Handler, Idle
    <2>3. worker'[w] = r
      BY <1>1, <2>1, <2>2, WorkerTyped
    <2>4. GoesOn(w, k)' /\ ~Holds(w, k)'
      BY <2>1, <2>2, <2>3 DEF GoesOn, Holds
    <2>5. Open(k)' = Open(k) /\ Open(k) \in Nat
      BY <1>4 DEF Open
    <2>6. Open(k)' + (IF Holds(w, k)' THEN 1 ELSE 0) + credit[k]
            <= Open(k) + (IF Holds(w, k) THEN 1 ELSE 0) + credit'[k]
      BY <1>4, <1>5, <1>6, <2>4, <2>5
    <2>7. /\ job' \in [Key -> JobRow] /\ queue' \in [Task -> Nat] /\ abandoned' \subseteq Key
          /\ \A u \in Task : queue'[u] >= queue[u]
          /\ \A u \in Task : queue'[u] > 0 => u.attempts < MaxAttempts[u.kind]
      BY <1>1, <1>4, <1>9 DEF TypeOK, Shaped, JobRow
    <2>8. UNCHANGED <<reviewVars, status, revived, client, calls, abandoned, job, credit>>
      BY <1>4, <1>9
    <2> QED
      BY <1>3, <1>5, <2>1, <2>2, <2>4, <2>6, <2>7, <2>8, WorkerStep
  <1> QED
    BY <1>4, <1>7, <1>8, <1>9

(* Faults stay within their bound. *)
LEMMA SufferTyped == ASSUME TypeOK, Suffer PROVE faults' \in 0..MaxFaults
  BY BoundsAssumption DEF TypeOK, Suffer

(* MediaFails: media that are not ready are a cause to execute again. *)
LEMMA MediaFailsInv == ASSUME IInv, NEW w \in Worker, NEW b \in BOOLEAN, MediaFails(w, b) PROVE IInv'
  <1>1. Shaped /\ TypeOK
    BY DEF IInv, Shaped
  <1>2. worker[w] # Idle
    BY <1>1, Hands DEF MediaFails
  <1>3. PICK k \in Key : k = worker[w].task.key
    BY <1>1, <1>2, Hands
  <1>4. /\ Suffer /\ credit' = IF b THEN [credit EXCEPT ![k] = @ + 1] ELSE credit
        /\ UNCHANGED <<reviewVars, status, revived, job, queue, post, client, abandoned, calls>>
        /\ IF b THEN Writes(w, "retrying", "end", "retry", FALSE)
                ELSE Writes(w, "failed", "end", "terminal", FALSE)
    BY <1>3 DEF MediaFails
  <1>5. /\ faults' \in 0..MaxFaults /\ credit' \in [Key -> Int] /\ credit[k] \in Int
        /\ credit'[k] = IF b THEN credit[k] + 1 ELSE credit[k]
        /\ \A i \in Key : i # k => credit'[i] = credit[i]
        /\ post' \in [Key -> {"none", "scheduled", "published", "failed"}]
    BY <1>1, <1>4, SufferTyped DEF TypeOK
  <1>6. /\ {"retrying", "failed"} \subseteq RowStatus /\ "failed" \notin Active
        /\ {"retry", "terminal"} \subseteq Outcome
    BY DEF RowStatus, Active, Outcome
  <1>7. CASE b
    <2>1. (IF "retrying" = "retrying" THEN 1 ELSE 0) + credit[k] <= (IF Holds(w, k) THEN 1 ELSE 0) + credit'[k]
      BY <1>5, <1>7
    <2>2. Writes(w, "retrying", "end", "retry", FALSE)
      BY <1>4, <1>7
    <2> QED
      BY <1>2, <1>3, <1>4, <1>5, <1>6, <2>1, <2>2, WritesInv
  <1>8. CASE ~b
    <2>1. (IF "failed" = "retrying" THEN 1 ELSE 0) + credit[k] <= (IF Holds(w, k) THEN 1 ELSE 0) + credit'[k]
      BY <1>5, <1>8
    <2>2. Writes(w, "failed", "end", "terminal", FALSE)
      BY <1>4, <1>8
    <2> QED
      BY <1>2, <1>3, <1>4, <1>5, <1>6, <2>1, <2>2, WritesInv
  <1> QED
    BY <1>7, <1>8

(* MarkPublishing: the row gives its cause to the worker that calls. *)
LEMMA MarkPublishingInv == ASSUME IInv, NEW w \in Worker, MarkPublishing(w) PROVE IInv'
  <1>1. Shaped /\ TypeOK
    BY DEF IInv, Shaped
  <1>2. worker[w] # Idle /\ worker[w] \in Entering /\ worker[w].pc = "mark"
    BY <1>1, Hands DEF MarkPublishing
  <1>3. PICK k \in Key : k = worker[w].task.key
    BY <1>1, <1>2, Hands
  <1>4. /\ UNCHANGED <<reviewVars, status, revived, post, client, credit, calls, faults>>
        /\ \/ /\ job[k].status \in {"queued", "retrying"}
              /\ job' = [job EXCEPT ![k].status = "publishing"]
              /\ worker' = [worker EXCEPT ![w] = [worker[w] EXCEPT !.pc = "call"]]
              /\ UNCHANGED <<queue, abandoned>>
           \/ EndsWith(w, "retry") /\ UNCHANGED job
    BY <1>3 DEF MarkPublishing, WorkerGoesOn
  <1>5. /\ faults' \in 0..MaxFaults /\ credit' \in [Key -> Int] /\ credit[k] \in Int
        /\ post' \in [Key -> {"none", "scheduled", "published", "failed"}]
    BY <1>1, <1>4 DEF TypeOK
  <1>6. CASE EndsWith(w, "retry") /\ UNCHANGED job
    BY <1>2, <1>4, <1>5, <1>6, EndsInv
  <1>7. CASE /\ job[k].status \in {"queued", "retrying"}
             /\ job' = [job EXCEPT ![k].status = "publishing"]
             /\ worker' = [worker EXCEPT ![w] = [worker[w] EXCEPT !.pc = "call"]]
             /\ UNCHANGED <<queue, abandoned>>
    <2>1. PICK r \in Entering : /\ worker' = [worker EXCEPT ![w] = r] /\ r.task = worker[w].task
                                /\ r.pc = "call"
      <3>1. PICK h \in Entering : h = worker[w]
        BY <1>2
      <3>2. [h EXCEPT !.pc = "call"] \in Entering /\ [h EXCEPT !.pc = "call"].task = h.task
              /\ [h EXCEPT !.pc = "call"].pc = "call"
        BY DEF Entering
      <3>3. worker' = [worker EXCEPT ![w] = [h EXCEPT !.pc = "call"]]
        BY <1>7, <3>1
      <3> QED
        BY <3>1, <3>2, <3>3
    <2>2. r \in Handler /\ r # Idle /\ r.pc # "write" /\ r.task.key = k
      BY <1>3, <2>1 DEF Handler, Idle
    <2>3. worker'[w] = r
      BY <1>1, <2>1, <2>2, WorkerTyped
    <2>4. GoesOn(w, k)'
      BY <2>1, <2>2, <2>3 DEF GoesOn
    <2>5. /\ job' \in [Key -> JobRow] /\ job'[k].status = "publishing"
          /\ \A i \in Key \ {k} : job'[i] = job[i]
      BY <1>1, <1>7 DEF TypeOK, JobRow, JobStatus
    <2>6. Open(k) = 1 /\ Open(k)' = 0
      BY <1>7, <2>5 DEF Open, Executable
    <2>7. Open(k)' + (IF Holds(w, k)' THEN 1 ELSE 0) + credit[k]
            <= Open(k) + (IF Holds(w, k) THEN 1 ELSE 0) + credit'[k]
      BY <1>4, <1>5, <2>6
    <2>8. /\ queue' \in [Task -> Nat] /\ abandoned' \subseteq Key
          /\ \A u \in Task : queue'[u] >= queue[u]
          /\ \A u \in Task : queue'[u] > 0 => u.attempts < MaxAttempts[u.kind]
      BY <1>1, <1>7 DEF TypeOK, Shaped
    <2>9. UNCHANGED <<reviewVars, status, revived, client, calls, abandoned, credit>>
      BY <1>4, <1>7
    <2> QED
      BY <1>3, <1>5, <2>1, <2>2, <2>4, <2>5, <2>7, <2>8, <2>9, WorkerStep
  <1> QED
    BY <1>4, <1>6, <1>7

(* What a call leaves alone, and what it takes from the causes. *)
LEMMA CallTyped ==
  ASSUME IInv, NEW w \in Worker, Called(w), NEW b \in BOOLEAN, Spend(w, b), NEW k \in Key,
         k = worker[w].task.key
  PROVE /\ worker[w] # Idle /\ worker[w].pc = "call" /\ credit' \in [Key -> Int]
        /\ worker[w].task.kind \in Kind
        /\ \A i \in Key : i # k => credit'[i] = credit[i]
        /\ credit[k] <= (IF Holds(w, k) THEN 1 ELSE 0) + credit'[k]
        /\ b => (IF worker[w].task.kind = "execute" THEN 1 ELSE 0) + credit[k]
                  <= (IF Holds(w, k) THEN 1 ELSE 0) + credit'[k]
        /\ UNCHANGED <<reviewVars, status, revived, job, queue, client, abandoned, calls>>
  <1>1. Shaped /\ TypeOK
    BY DEF IInv, Shaped
  <1>2. worker[w].pc = "call" /\ worker[w] # Idle /\ worker[w].task.kind \in Kind
    BY <1>1, Hands DEF Called
  <1>3. Holds(w, k) <=> worker[w].task.kind = "execute"
    BY <1>2 DEF Holds
  <1>4. credit \in [Key -> Int]
    BY <1>1 DEF TypeOK
  <1>5. CASE worker[w].task.kind = "reconcile"
    <2>1. credit' = credit
      BY <1>5 DEF Spend
    <2> QED
      BY <1>2, <1>3, <1>4, <1>5, <2>1 DEF Called
  <1>6. CASE worker[w].task.kind = "execute"
    <2>1. credit' = [credit EXCEPT ![k] = @ - (IF b THEN 0 ELSE 1)]
      BY <1>6 DEF Spend
    <2>2. Holds(w, k)
      BY <1>3, <1>6
    <2>3. credit'[k] = credit[k] - (IF b THEN 0 ELSE 1)
      BY <1>4, <2>1
    <2> QED
      BY <1>2, <1>4, <1>6, <2>1, <2>2, <2>3 DEF Called
  <1> QED
    BY <1>2, <1>5, <1>6 DEF Kind

(* Any row but retrying may be written after a call, and retrying after an *)
(* answer that gives the cause back, if whoever writes it goes on.         *)
LEMMA CallWritesInv ==
  ASSUME IInv, NEW w \in Worker, Called(w), NEW b \in BOOLEAN, Spend(w, b),
         NEW s \in RowStatus, NEW n \in {"hand", "end"}, NEW o \in Outcome, NEW g \in BOOLEAN,
         Writes(w, s, n, o, g), s \in Active => n = "hand" \/ o = "retry",
         s = "retrying" => b /\ worker[w].task.kind = "execute",
         post' \in [Key -> {"none", "scheduled", "published", "failed"}], faults' \in 0..MaxFaults
  PROVE IInv'
  <1>1. Shaped /\ TypeOK /\ worker[w] # Idle
    BY Hands DEF IInv, Shaped, Called
  <1>2. PICK k \in Key : k = worker[w].task.key
    BY <1>1, Hands
  <1>3. /\ credit' \in [Key -> Int] /\ \A i \in Key : i # k => credit'[i] = credit[i]
        /\ credit[k] <= (IF Holds(w, k) THEN 1 ELSE 0) + credit'[k]
        /\ b => (IF worker[w].task.kind = "execute" THEN 1 ELSE 0) + credit[k]
                  <= (IF Holds(w, k) THEN 1 ELSE 0) + credit'[k]
        /\ UNCHANGED <<reviewVars, status, revived, job, queue, client, abandoned, calls>>
    BY <1>2, CallTyped
  <1>4. credit[k] \in Int
    BY <1>1 DEF TypeOK
  <1>5. (IF s = "retrying" THEN 1 ELSE 0) + credit[k] <= (IF Holds(w, k) THEN 1 ELSE 0) + credit'[k]
    BY <1>3, <1>4
  <1> QED
    BY <1>1, <1>2, <1>3, <1>5, WritesInv

LEMMA RowNames ==
  /\ RowStatus = {"scheduled", "published", "failed", "retrying", "reconcile_required"}
  /\ Outcome = {"ok", "terminal", "retry"}
  /\ "failed" \notin Active /\ "published" \notin Active
  BY DEF RowStatus, Outcome, Active

(* Answered: what an answer leads to never makes the row executable. *)
LEMMA AnsweredInv == ASSUME IInv, NEW w \in Worker, Answered(w) PROVE IInv'
  <1>1. TypeOK /\ Shaped
    BY DEF IInv, Shaped
  <1>2. worker[w] # Idle
    BY <1>1, Hands DEF Answered, Called
  <1>3. PICK k \in Key : k = worker[w].task.key
    BY <1>1, <1>2, Hands
  <1>4. PICK known \in {"none", "scheduled", "published", "failed"} :
          /\ Called(w) /\ Spend(w, FALSE) /\ post' = [post EXCEPT ![k] = known]
          /\ \/ Result(w, known) /\ UNCHANGED faults
             \/ /\ Suffer
                /\ \/ Writes(w, "reconcile_required", "hand", "ok", TRUE)
                   \/ Writes(w, "reconcile_required", "end", "retry", TRUE)
    <2>1. post[k] \in {"none", "scheduled", "published", "failed"}
      BY <1>1 DEF TypeOK
    <2> QED
      BY <1>3, <2>1 DEF Answered
  <1>5. /\ post' \in [Key -> {"none", "scheduled", "published", "failed"}]
        /\ faults' \in 0..MaxFaults
    BY <1>1, <1>4, SufferTyped DEF TypeOK
  <1>6. PICK s \in RowStatus \ {"retrying"}, n \in {"hand", "end"}, o \in Outcome, g \in BOOLEAN :
          Writes(w, s, n, o, g) /\ (s \in Active => n = "hand" \/ o = "retry")
    <2>1. CASE Result(w, known)
      BY <2>1, RowNames DEF Result
    <2>2. CASE \/ Writes(w, "reconcile_required", "hand", "ok", TRUE)
               \/ Writes(w, "reconcile_required", "end", "retry", TRUE)
      BY <2>2, RowNames
    <2> QED
      BY <1>4, <2>1, <2>2
  <1>7. s \in RowStatus /\ s # "retrying"
    BY <1>6
  <1> QED
    BY <1>4, <1>5, <1>6, <1>7, CallWritesInv

(* CallThrows: only a busy answer, which is a cause to execute again,      *)
(* makes the row executable.                                               *)
LEMMA CallThrowsInv == ASSUME IInv, NEW w \in Worker, NEW a \in BOOLEAN, CallThrows(w, a) PROVE IInv'
  <1>1. TypeOK /\ Shaped
    BY DEF IInv, Shaped
  <1>2. worker[w] # Idle
    BY <1>1, Hands DEF CallThrows, Called
  <1>3. PICK k \in Key : k = worker[w].task.key
    BY <1>1, <1>2, Hands
  <1>4. /\ Called(w) /\ Suffer
        /\ post' = [post EXCEPT ![k] = "scheduled"] \/ post' = post
        /\ \/ Spend(w, TRUE) /\ Busy(w)
           \/ Spend(w, FALSE) /\ (TimedOut(w) \/ Writes(w, "failed", "end", "terminal", FALSE))
    BY <1>3 DEF CallThrows
  <1>5. /\ post' \in [Key -> {"none", "scheduled", "published", "failed"}]
        /\ faults' \in 0..MaxFaults
    BY <1>1, <1>4, SufferTyped DEF TypeOK
  <1>6. CASE Spend(w, TRUE) /\ Busy(w)
    <2>1. PICK s \in RowStatus, n \in {"hand", "end"}, o \in Outcome, g \in BOOLEAN :
            /\ Writes(w, s, n, o, g) /\ (s \in Active => n = "hand" \/ o = "retry")
            /\ s = "retrying" => worker[w].task.kind = "execute"
      BY <1>6, RowNames DEF Busy
    <2> QED
      BY <1>4, <1>5, <1>6, <2>1, CallWritesInv
  <1>7. CASE Spend(w, FALSE) /\ (TimedOut(w) \/ Writes(w, "failed", "end", "terminal", FALSE))
    <2>1. PICK s \in RowStatus \ {"retrying"}, n \in {"hand", "end"}, o \in Outcome, g \in BOOLEAN :
            Writes(w, s, n, o, g) /\ (s \in Active => n = "hand" \/ o = "retry")
      BY <1>7, RowNames DEF TimedOut
    <2> QED
      BY <1>4, <1>5, <1>7, <2>1, CallWritesInv
  <1> QED
    BY <1>4, <1>6, <1>7

(* WriteRow: the cause a worker held for retrying goes to the row. *)
LEMMA WriteRowInv == ASSUME IInv, NEW w \in Worker, WriteRow(w) PROVE IInv'
  <1>1. Shaped /\ TypeOK /\ Minded
    BY DEF IInv, Shaped
  <1>2. worker[w] # Idle /\ worker[w] \in Writing /\ worker[w].pc = "write"
    BY <1>1, Hands DEF WriteRow
  <1>3. PICK k \in Key, s \in RowStatus : k = worker[w].task.key /\ s = worker[w].row
    BY <1>1, <1>2, Hands DEF Writing
  <1>4. PICK d, b : /\ worker' = [worker EXCEPT ![w] =
                         [pc |-> "put", task |-> worker[w].task, next |-> worker[w].next,
                          outcome |-> worker[w].outcome, guarded |-> worker[w].guarded, derived |-> d]]
                    /\ d \in Publishable
                    /\ b \in BOOLEAN /\ job' = [job EXCEPT ![k].status = s, ![k].ref = b]
                    /\ UNCHANGED <<reviewVars, status, revived, queue, post, client, historyVars, calls, faults>>
    <2>1. \A b : (job[k].ref \/ b) \in BOOLEAN
      OBVIOUS
    <2>2. job' = [job EXCEPT ![k].status = s, ![k].ref = job[k].ref \/ worker[w].ref]
      BY <1>3 DEF WriteRow
    <2> QED
      BY <2>1, <2>2, DerivedTyped DEF WriteRow, WorkerGoesOn
  <1>5. PICK r \in Putting : /\ worker' = [worker EXCEPT ![w] = r] /\ r.task = worker[w].task
                             /\ r.next = worker[w].next /\ r.outcome = worker[w].outcome
    <2>1. PICK h \in Writing : h = worker[w]
      BY <1>2
    <2> DEFINE p == [pc |-> "put", task |-> h.task, next |-> h.next,
                     outcome |-> h.outcome, guarded |-> h.guarded, derived |-> d]
    <2>2. p \in Putting /\ p.task = h.task /\ p.next = h.next /\ p.outcome = h.outcome
      BY <1>4 DEF Writing, Putting
    <2>3. worker' = [worker EXCEPT ![w] = p]
      BY <1>4, <2>1
    <2> HIDE DEF p
    <2> QED
      BY <2>1, <2>2, <2>3
  <1>6. r \in Handler /\ r # Idle /\ r.pc = "put" /\ r.task.key = k
    BY <1>3, <1>5 DEF Handler, Putting, Idle
  <1>7. worker'[w] = r
    BY <1>1, <1>5, <1>6, WorkerTyped
  <1>8. /\ job' \in [Key -> JobRow] /\ job'[k].status = s
        /\ \A i \in Key \ {k} : job'[i] = job[i]
    BY <1>1, <1>4, RowNames DEF TypeOK, JobRow, JobStatus
  <1>9. s \notin Active \/ GoesOn(w, k)'
    BY <1>1, <1>2, <1>3, <1>5, <1>6, <1>7 DEF GoesOn, Minded
  <1>10. ~Holds(w, k)' /\ (s = "retrying" => Holds(w, k))
    BY <1>2, <1>3, <1>6, <1>7 DEF Holds
  <1>11. Open(k)' = (IF s = "retrying" THEN 1 ELSE 0) /\ Open(k) \in {0, 1}
    BY <1>8, RowNames DEF Open, Executable
  <1>12. credit' = credit /\ credit' \in [Key -> Int] /\ credit[k] \in Int
    BY <1>1, <1>4 DEF TypeOK, historyVars
  <1>13. Open(k)' + (IF Holds(w, k)' THEN 1 ELSE 0) + credit[k]
            <= Open(k) + (IF Holds(w, k) THEN 1 ELSE 0) + credit'[k]
    BY <1>10, <1>11, <1>12
  <1>14. /\ queue' \in [Task -> Nat] /\ abandoned' \subseteq Key /\ faults' \in 0..MaxFaults
         /\ post' \in [Key -> {"none", "scheduled", "published", "failed"}]
         /\ \A u \in Task : queue'[u] >= queue[u]
         /\ \A u \in Task : queue'[u] > 0 => u.attempts < MaxAttempts[u.kind]
         /\ UNCHANGED <<reviewVars, client, calls, status, revived, abandoned>>
    BY <1>1, <1>4 DEF TypeOK, Shaped, historyVars
  <1> QED
    BY <1>3, <1>5, <1>6, <1>8, <1>9, <1>12, <1>13, <1>14, WorkerStep

(* PutStatus: the handler goes on, or ends if it had nothing more to do. *)
LEMMA PutStatusInv == ASSUME IInv, NEW w \in Worker, PutStatus(w) PROVE IInv'
  <1>1. Shaped /\ TypeOK
    BY DEF IInv, Shaped
  <1>2. worker[w] # Idle /\ worker[w] \in Putting /\ worker[w].pc = "put"
    BY <1>1, Hands DEF PutStatus
  <1>3. PICK k \in Key : k = worker[w].task.key
    BY <1>1, <1>2, Hands
  <1>4. \E s \in Publishable : SetStatus(s)
    BY <1>2 DEF PutStatus, Putting
  <1>5. UNCHANGED <<reviewVars, job, post, client, credit, calls, faults>>
    BY DEF PutStatus
  <1>6. faults' \in 0..MaxFaults
    BY <1>1, <1>5 DEF TypeOK
  <1>7. CASE worker[w].next # "hand"
    <2>1. EndsWith(w, worker[w].outcome)
      BY <1>7 DEF PutStatus
    <2>2. worker[w].outcome = "retry" \/ ~GoesOn(w, worker[w].task.key)
      BY <1>2, <1>7 DEF GoesOn
    <2> QED
      BY <1>2, <1>4, <1>5, <1>6, <2>1, <2>2, EndsInv
  <1>8. CASE worker[w].next = "hand"
    <2>1. PICK r \in Handing : worker' = [worker EXCEPT ![w] = r] /\ r.task = worker[w].task
      BY <1>2, <1>8 DEF PutStatus, WorkerGoesOn, Handing, Putting
    <2>2. r \in Handler /\ r # Idle /\ r.pc = "hand" /\ r.task.key = k
      BY <1>3, <2>1 DEF Handler, Handing, Idle
    <2>3. worker'[w] = r
      BY <1>1, <2>1, <2>2, WorkerTyped
    <2>4. GoesOn(w, k)' /\ ~Holds(w, k)' /\ ~Holds(w, k)
      BY <1>2, <2>2, <2>3 DEF GoesOn, Holds
    <2>5. Open(k)' = Open(k) /\ Open(k) \in Nat
      BY <1>5 DEF Open
    <2>6. credit' \in [Key -> Int] /\ credit[k] \in Int
      BY <1>1, <1>5 DEF TypeOK
    <2>7. Open(k)' + (IF Holds(w, k)' THEN 1 ELSE 0) + credit[k]
            <= Open(k) + (IF Holds(w, k) THEN 1 ELSE 0) + credit'[k]
      BY <1>5, <2>4, <2>5, <2>6
    <2>8. UNCHANGED <<queue, abandoned>>
      BY <1>8 DEF PutStatus
    <2>9. /\ job' \in [Key -> JobRow] /\ queue' \in [Task -> Nat] /\ abandoned' \subseteq Key
          /\ post' \in [Key -> {"none", "scheduled", "published", "failed"}]
          /\ \A u \in Task : queue'[u] >= queue[u]
          /\ \A u \in Task : queue'[u] > 0 => u.attempts < MaxAttempts[u.kind]
      BY <1>1, <1>5, <2>8 DEF TypeOK, Shaped, JobRow
    <2> QED
      BY <1>3, <1>4, <1>5, <1>6, <2>1, <2>2, <2>4, <2>6, <2>7, <2>8, <2>9, WorkerStep
  <1> QED
    BY <1>7, <1>8

(* A background job more waits, with all its attempts. *)
LEMMA Enqueued ==
  ASSUME Shaped, NEW q \in Kind, NEW k \in Key, Enqueue(q, k)
  PROVE /\ queue' \in [Task -> Nat] /\ \A u \in Task : queue'[u] >= queue[u]
        /\ \A u \in Task : queue'[u] > 0 => u.attempts < MaxAttempts[u.kind]
        /\ \E u \in Task : u.key = k /\ queue'[u] > 0
  <1> DEFINE t == [kind |-> q, key |-> k, attempts |-> 0]
  <1>1. MaxAttempts[q] \in Nat /\ MaxAttempts[q] > 0
    BY AttemptsAssumption
  <1>2. t \in Task /\ t.key = k /\ t.attempts < MaxAttempts[t.kind]
    BY <1>1, TaskShape
  <1>3. queue' = [queue EXCEPT ![t] = @ + 1] /\ queue \in [Task -> Nat]
    BY DEF Enqueue, Shaped, TypeOK
  <1>4. \A u \in Task : queue[u] > 0 => u.attempts < MaxAttempts[u.kind]
    BY DEF Shaped
  <1> HIDE DEF t
  <1> QED
    BY <1>2, <1>3, <1>4

(* A step after which the worker has nothing in hand and its publication   *)
(* is looked at by a background job, or abandoned.                         *)
LEMMA LeavesInv ==
  ASSUME IInv, NEW w \in Worker, NEW k \in Key, worker[w] # Idle, k = worker[w].task.key,
         worker' = [worker EXCEPT ![w] = Idle],
         UNCHANGED <<reviewVars, status, revived, job, post, client, credit, calls>>,
         queue' \in [Task -> Nat], \A u \in Task : queue'[u] >= queue[u],
         \A u \in Task : queue'[u] > 0 => u.attempts < MaxAttempts[u.kind],
         abandoned \subseteq abandoned', abandoned' \subseteq Key, faults' \in 0..MaxFaults,
         k \in abandoned' \/ \E u \in Task : u.key = k /\ queue'[u] > 0
  PROVE IInv'
  <1>1. Shaped /\ TypeOK
    BY DEF IInv, Shaped
  <1>2. Idle \in Handler /\ Idle.pc # "write"
    BY DEF Handler, Idle
  <1>3. worker'[w] = Idle
    BY <1>1, <1>2, WorkerTyped
  <1>4. ~Holds(w, k)' /\ Open(k)' = Open(k) /\ Open(k) \in Nat
    BY <1>3 DEF Holds, Open
  <1>5. /\ job' \in [Key -> JobRow] /\ credit[k] \in Int /\ credit' \in [Key -> Int]
        /\ post' \in [Key -> {"none", "scheduled", "published", "failed"}]
    BY <1>1 DEF TypeOK, JobRow
  <1>6. Open(k)' + (IF Holds(w, k)' THEN 1 ELSE 0) + credit[k]
           <= Open(k) + (IF Holds(w, k) THEN 1 ELSE 0) + credit'[k]
    BY <1>4, <1>5
  <1> QED
    BY <1>2, <1>5, <1>6, WorkerStep

(* HandOver: the reconciliation looks at the publication from here. *)
LEMMA HandOverInv == ASSUME IInv, NEW w \in Worker, HandOver(w) PROVE IInv'
  <1>1. Shaped /\ TypeOK
    BY DEF IInv, Shaped
  <1>2. worker[w] # Idle
    BY <1>1, Hands DEF HandOver
  <1>3. PICK k \in Key : k = worker[w].task.key
    BY <1>1, <1>2, Hands
  <1>4. Enqueue("reconcile", k) /\ "reconcile" \in Kind
    BY <1>3 DEF HandOver, Kind
  <1>5. worker' = [worker EXCEPT ![w] = Idle]
        /\ UNCHANGED <<reviewVars, status, revived, job, post, client, historyVars, calls, faults>>
    BY DEF HandOver, WorkerGoesOn
  <1>6. abandoned' \subseteq Key /\ faults' \in 0..MaxFaults
    BY <1>1, <1>5 DEF TypeOK, historyVars
  <1> QED
    BY <1>1, <1>2, <1>3, <1>4, <1>5, <1>6, Enqueued, LeavesInv DEF historyVars

(* Crash: the publication is abandoned. *)
LEMMA CrashInv == ASSUME IInv, NEW w \in Worker, Crash(w) PROVE IInv'
  <1>1. Shaped /\ TypeOK
    BY DEF IInv, Shaped
  <1>2. worker[w] # Idle
    BY DEF Crash
  <1>3. PICK k \in Key : k = worker[w].task.key
    BY <1>1, <1>2, Hands
  <1>4. /\ worker' = [worker EXCEPT ![w] = Idle] /\ abandoned' = abandoned \cup {k}
        /\ UNCHANGED <<reviewVars, status, revived, job, queue, post, client, credit, calls>>
        /\ faults' \in 0..MaxFaults
    BY <1>1, <1>3, SufferTyped DEF Crash, WorkerGoesOn
  <1>5. /\ queue' \in [Task -> Nat] /\ \A u \in Task : queue'[u] >= queue[u]
        /\ \A u \in Task : queue'[u] > 0 => u.attempts < MaxAttempts[u.kind]
        /\ abandoned' \subseteq Key
    BY <1>1, <1>4 DEF Shaped, TypeOK
  <1> QED
    BY <1>2, <1>3, <1>4, <1>5, LeavesInv

(* StatementFails: the handler fails the row, or its background job is     *)
(* tried again.                                                            *)
LEMMA StatementFailsInv == ASSUME IInv, NEW w \in Worker, StatementFails(w) PROVE IInv'
  <1>1. Shaped /\ TypeOK
    BY DEF IInv, Shaped
  <1>2. worker[w] # Idle
    BY <1>1, Hands DEF StatementFails
  <1>3. PICK k \in Key : k = worker[w].task.key
    BY <1>1, <1>2, Hands
  <1>4. /\ faults' \in 0..MaxFaults /\ credit' \in [Key -> Int] /\ credit[k] \in Int /\ credit' = credit
        /\ post' \in [Key -> {"none", "scheduled", "published", "failed"}]
        /\ UNCHANGED <<reviewVars, status, revived, job, post, client, credit, calls>>
    BY <1>1, SufferTyped DEF TypeOK, StatementFails
  <1>5. CASE EndsWith(w, "retry")
    BY <1>2, <1>4, <1>5, EndsInv
  <1>6. CASE Writes(w, "failed", "end", "terminal", FALSE) /\ UNCHANGED <<queue, abandoned>>
    <2>1. (IF "failed" = "retrying" THEN 1 ELSE 0) + credit[k] <= (IF Holds(w, k) THEN 1 ELSE 0) + credit'[k]
      BY <1>4
    <2> QED
      BY <1>2, <1>3, <1>4, <1>6, <2>1, RowNames, WritesInv
  <1> QED
    BY <1>5, <1>6 DEF StatementFails

-----------------------------------------------------------------------------
(* An API call looks at the publications it created or retries. *)
Calls(c, k) == client[c] # Idle /\ client[c].pc # "mark" /\ k \in client[c].created

(* A step of an API call preserves the invariant if it balances the causes *)
(* and keeps what it looked at minded.                                     *)
LEMMA ClientKeeps ==
  ASSUME IInv, NEW c \in Client, NEW r \in {Idle} \cup Call, client' = [client EXCEPT ![c] = r],
         UNCHANGED <<reviewVars, worker, post>>,
         UNCHANGED <<status, revived>> \/ \E s \in Publishable : SetStatus(s),
         job' \in [Key -> JobRow],
         queue' \in [Task -> Nat], \A t \in Task : queue'[t] >= queue[t],
         \A t \in Task : queue'[t] > 0 => t.attempts < MaxAttempts[t.kind],
         abandoned \subseteq abandoned', abandoned' \subseteq Key,
         credit' \in [Key -> Int], calls' \in 0..MaxCalls, faults' \in 0..MaxFaults,
         \A k \in Key : Open(k)' + credit[k] <= Open(k) + credit'[k],
         \A k \in Key : job'[k].status \in Active =>
           \/ k \in abandoned'
           \/ \E t \in Task : t.key = k /\ queue'[t] > 0
           \/ r # Idle /\ r.pc # "mark" /\ k \in r.created
           \/ job[k].status \in Active /\ ~Calls(c, k)
  PROVE IInv'
  <1>1. Shaped /\ Minded /\ Credited /\ Standing /\ TypeOK
    BY DEF IInv, Shaped
  <1>2. /\ client' \in [Client -> {Idle} \cup Call] /\ client'[c] = r
        /\ \A d \in Client : d # c => client'[d] = client[d]
    BY <1>1 DEF Shaped
  <1>3. /\ status' \in InReview \cup Publishable /\ revived' \in BOOLEAN
        /\ verdict = "rejected" /\ ~revived' => status' \in InReview
    BY <1>1, StatusKept
  <1>4. TypeOK'
    BY <1>1, <1>3 DEF TypeOK, reviewVars, JobRow
  <1>5. Shaped'
    BY <1>1, <1>2, <1>4 DEF Shaped
  <1>6. Minded'
    <2>1. ASSUME NEW k \in Key, job'[k].status \in Active PROVE Kept(k)' \/ k \in abandoned'
      <3>1. CASE \E t \in Task : t.key = k /\ queue'[t] > 0
        BY <3>1 DEF Kept, Waiting
      <3>2. CASE r # Idle /\ r.pc # "mark" /\ k \in r.created
        BY <1>2, <3>2 DEF Kept
      <3>3. CASE job[k].status \in Active /\ ~Calls(c, k)
        <4>1. Kept(k) \/ k \in abandoned
          BY <1>1, <3>3 DEF Minded
        <4>2. CASE Waiting(k)
          <5>1. PICK t \in Task : t.key = k /\ queue[t] > 0
            BY <4>2 DEF Waiting
          <5>2. queue[t] \in Nat /\ queue'[t] \in Nat /\ queue'[t] >= queue[t]
            BY <1>1 DEF TypeOK
          <5> QED
            BY <5>1, <5>2 DEF Kept, Waiting
        <4>3. CASE \E w \in Worker : GoesOn(w, k)
          BY <4>3 DEF Kept, GoesOn
        <4>4. CASE \E d \in Client : Calls(d, k)
          BY <1>2, <3>3, <4>4 DEF Kept, Calls
        <4> QED
          BY <4>1, <4>2, <4>3, <4>4 DEF Kept, Calls
      <3> QED
        BY <2>1, <3>1, <3>2, <3>3
    <2> QED
      BY <1>1, <2>1 DEF Minded
  <1>7. Credited'
    <2> SUFFICES ASSUME NEW k \in Key PROVE Open(k)' + Cardinality(Holders(k)') <= credit'[k]
      BY DEF Credited
    <2>1. Holders(k)' = Holders(k)
      BY DEF Holders, Holds
    <2>2. Open(k)' \in {0, 1} /\ Open(k) \in {0, 1}
      BY DEF Open
    <2>3. credit[k] \in Int /\ credit'[k] \in Int
      BY <1>1 DEF TypeOK
    <2>4. Cardinality(Holders(k)) \in Nat
      BY WorkersAssumption, FS_Subset, FS_CardinalityType DEF Holders
    <2>5. Open(k) + Cardinality(Holders(k)) <= credit[k]
      BY <1>1 DEF Credited
    <2> QED
      BY <2>1, <2>2, <2>3, <2>4, <2>5
  <1>8. Standing'
    BY <1>3 DEF Standing, reviewVars
  <1> QED
    BY <1>5, <1>6, <1>7, <1>8 DEF IInv

(* What an API call has in hand has the right shape. *)
LEMMA CallShape ==
  ASSUME Shaped, NEW c \in Client, client[c] # Idle
  PROVE client[c] \in Call /\ client[c].created \subseteq Key /\ client[c].todo \subseteq Key
  BY DEF Shaped, Call

LEMMA NotIdle ==
  ASSUME Shaped, NEW c \in Client, client[c].pc # "idle" PROVE client[c] # Idle
  BY DEF Idle

(* The current approval is the latest, and a key is made of it. *)
LEMMA ApprovalTyped ==
  ASSUME TypeOK
  PROVE /\ CurrentApproval \in 0..MaxApprovals
        /\ CurrentApproval # 0 => \A p \in Platform : KeyOf(p, CurrentApproval) \in Key
  <1>1. Len(approvals) \in 0..MaxApprovals
    BY BoundsAssumption DEF TypeOK
  <1>2. CurrentApproval # 0 =>
          CurrentApproval = Len(approvals) /\ Len(approvals) \in 1..MaxApprovals
    BY <1>1 DEF CurrentApproval, TypeOK
  <1>3. ASSUME CurrentApproval # 0, NEW p \in Platform PROVE KeyOf(p, CurrentApproval) \in Key
    <2>1. approvals[CurrentApproval] \in Version
      BY <1>2, <1>3 DEF TypeOK
    <2> QED
      BY <1>2, <1>3, <2>1 DEF KeyOf, Key
  <1> QED
    BY <1>1, <1>2, <1>3, BoundsAssumption

(* StartCreate: nothing is created yet. *)
LEMMA StartCreateInv == ASSUME IInv, NEW c \in Client, StartCreate(c) PROVE IInv'
  <1> DEFINE r == [pc |-> "ensure", approval |-> CurrentApproval,
                   todo |-> {KeyOf(p, CurrentApproval) : p \in Platform}, created |-> {}]
  <1>1. Shaped /\ TypeOK
    BY DEF IInv, Shaped
  <1>2. /\ client[c] = Idle /\ CurrentApproval # 0 /\ calls < MaxCalls /\ calls' = calls + 1
        /\ client' = [client EXCEPT ![c] = r]
        /\ UNCHANGED <<reviewVars, status, revived, job, queue, post, worker, historyVars, faults>>
    BY DEF StartCreate, ClientGoesOn
  <1>3. r \in Call
    BY <1>1, <1>2, ApprovalTyped DEF Call
  <1> HIDE DEF r
  <1>4. calls' \in 0..MaxCalls
    BY <1>1, <1>2, BoundsAssumption DEF TypeOK
  <1>5. \A k \in Key : Open(k)' + credit[k] <= Open(k) + credit'[k]
    BY <1>1, <1>2 DEF Open, TypeOK, historyVars
  <1>6. ~\E k \in Key : Calls(c, k)
    BY <1>2 DEF Calls
  <1>7. /\ job' \in [Key -> JobRow] /\ queue' \in [Task -> Nat] /\ abandoned' \subseteq Key
        /\ \A t \in Task : queue'[t] >= queue[t]
        /\ \A t \in Task : queue'[t] > 0 => t.attempts < MaxAttempts[t.kind]
        /\ credit' \in [Key -> Int] /\ faults' \in 0..MaxFaults /\ abandoned' = abandoned
    BY <1>1, <1>2 DEF TypeOK, Shaped, JobRow, historyVars
  <1> QED
    BY <1>2, <1>3, <1>4, <1>5, <1>6, <1>7, ClientKeeps

(* EnsureJob: a row that is inserted is one of those the call created. *)
LEMMA EnsureJobInv == ASSUME IInv, NEW c \in Client, NEW k \in Key, EnsureJob(c, k) PROVE IInv'
  <1>1. Shaped /\ TypeOK
    BY DEF IInv, Shaped
  <1>2. client[c].pc = "ensure" /\ client[c] # Idle
    BY <1>1, NotIdle DEF EnsureJob
  <1>3. PICK h \in Call : h = client[c]
    BY <1>1, <1>2, CallShape
  <1> DEFINE new == job[k].status = "absent"
             rest == h.todo \ {k}
             r == [h EXCEPT !.todo = rest, !.created = IF new THEN @ \cup {k} ELSE @,
                            !.pc = IF rest = {} THEN "enter" ELSE "ensure"]
  <1>4. /\ client' = [client EXCEPT ![c] = r]
        /\ job' = IF new THEN [job EXCEPT ![k] = [status |-> "queued", ref |-> FALSE,
                                                  approval |-> h.approval]]
                         ELSE job
        /\ UNCHANGED <<reviewVars, status, revived, queue, post, worker, historyVars, calls, faults>>
    BY <1>3 DEF EnsureJob, ClientGoesOn
  <1>5. /\ r \in Call /\ r.pc \in {"enter", "ensure"}
        /\ r.created = IF new THEN h.created \cup {k} ELSE h.created
    BY <1>3 DEF Call
  <1>6. r # Idle /\ r.pc # "mark"
    BY <1>5 DEF Idle
  <1>7. h.approval \in 0..MaxApprovals
    BY <1>3 DEF Call
  <1> HIDE DEF r
  <1>8. /\ job' \in [Key -> JobRow]
        /\ \A i \in Key : job'[i] = job[i] \/ (i = k /\ new /\ job'[i].status = "queued")
    BY <1>1, <1>4, <1>7 DEF TypeOK, JobRow, JobStatus
  <1>9. credit' = credit /\ credit' \in [Key -> Int]
    BY <1>1, <1>4 DEF TypeOK, historyVars
  <1>10. \A i \in Key : Open(i)' + credit[i] <= Open(i) + credit'[i]
    <2> SUFFICES ASSUME NEW i \in Key PROVE Open(i)' + credit[i] <= Open(i) + credit'[i]
      OBVIOUS
    <2>1. Open(i)' = Open(i) /\ Open(i) \in Nat
      BY <1>8 DEF Open, Executable
    <2> QED
      BY <1>9, <2>1
  <1>11. \A i \in Key : job'[i].status \in Active =>
           \/ r # Idle /\ r.pc # "mark" /\ i \in r.created
           \/ job[i].status \in Active /\ ~Calls(c, i)
    BY <1>3, <1>5, <1>6, <1>8 DEF Calls
  <1>12. /\ queue' \in [Task -> Nat] /\ abandoned' \subseteq Key
         /\ \A t \in Task : queue'[t] >= queue[t]
         /\ \A t \in Task : queue'[t] > 0 => t.attempts < MaxAttempts[t.kind]
         /\ faults' \in 0..MaxFaults /\ abandoned' = abandoned /\ calls' \in 0..MaxCalls
    BY <1>1, <1>4 DEF TypeOK, Shaped, historyVars
  <1> QED
    BY <1>4, <1>5, <1>8, <1>9, <1>10, <1>11, <1>12, ClientKeeps

(* EnterPublication: the call goes on with what it created, or abandons it. *)
LEMMA EnterPublicationInv == ASSUME IInv, NEW c \in Client, EnterPublication(c) PROVE IInv'
  <1>1. Shaped /\ TypeOK
    BY DEF IInv, Shaped
  <1>2. client[c].pc = "enter" /\ client[c] # Idle
    BY <1>1, NotIdle DEF EnterPublication
  <1>3. PICK h \in Call : h = client[c]
    BY <1>1, <1>2, CallShape
  <1>4. /\ UNCHANGED <<reviewVars, revived, job, queue, post, worker, credit, calls, faults>>
        /\ status' = IF status # "APPROVED" THEN status
                     ELSE IF Mode = "schedule" THEN "SCHEDULED" ELSE "PUBLISHING"
        /\ \/ client' = [client EXCEPT ![c] = Idle] /\ h.created = {} /\ UNCHANGED abandoned
           \/ client' = [client EXCEPT ![c] = [h EXCEPT !.pc = "enqueue"]] /\ UNCHANGED abandoned
           \/ client' = [client EXCEPT ![c] = Idle] /\ abandoned' = abandoned \cup h.created
    BY <1>3 DEF EnterPublication, ClientGoesOn
  <1>5. PICK r \in {Idle} \cup Call :
          /\ client' = [client EXCEPT ![c] = r]
          /\ \A i \in Key : i \in h.created => i \in abandoned' \/ (r # Idle /\ r.pc # "mark" /\ i \in r.created)
    <2>1. /\ [h EXCEPT !.pc = "enqueue"] \in Call /\ [h EXCEPT !.pc = "enqueue"].created = h.created
          /\ [h EXCEPT !.pc = "enqueue"].pc = "enqueue" /\ [h EXCEPT !.pc = "enqueue"] # Idle
      BY DEF Call, Idle
    <2> QED
      BY <1>4, <2>1
  <1>6. UNCHANGED <<status, revived>> \/ \E s \in Publishable : SetStatus(s)
    <2>1. CASE status # "APPROVED"
      BY <1>4, <2>1
    <2>2. CASE status = "APPROVED"
      <3>1. status' \in Publishable /\ status \notin InReview
        BY <1>4, <2>2 DEF Publishable, InReview
      <3>2. SetStatus(status')
        BY <1>1, <1>4, <3>1 DEF SetStatus, TypeOK
      <3> QED
        BY <3>1, <3>2
    <2> QED
      BY <2>1, <2>2
  <1>7. \A i \in Key : Open(i)' + credit[i] <= Open(i) + credit'[i]
    BY <1>1, <1>4 DEF Open, TypeOK
  <1>8. \A i \in Key : Calls(c, i) => i \in h.created
    BY <1>3 DEF Calls
  <1>9. abandoned \subseteq abandoned' /\ abandoned' \subseteq Key
    BY <1>1, <1>3, <1>4 DEF TypeOK, Call
  <1>10. /\ job' \in [Key -> JobRow] /\ queue' \in [Task -> Nat]
         /\ \A t \in Task : queue'[t] >= queue[t]
         /\ \A t \in Task : queue'[t] > 0 => t.attempts < MaxAttempts[t.kind]
         /\ credit' \in [Key -> Int] /\ faults' \in 0..MaxFaults /\ calls' \in 0..MaxCalls
    BY <1>1, <1>4 DEF TypeOK, Shaped, JobRow
  <1> QED
    BY <1>4, <1>5, <1>6, <1>7, <1>8, <1>9, <1>10, ClientKeeps

(* EnqueueExecute: the background job looks at the publication. *)
LEMMA EnqueueExecuteInv == ASSUME IInv, NEW c \in Client, NEW k \in Key, EnqueueExecute(c, k) PROVE IInv'
  <1>1. Shaped /\ TypeOK
    BY DEF IInv, Shaped
  <1>2. client[c].pc = "enqueue" /\ client[c] # Idle
    BY <1>1, NotIdle DEF EnqueueExecute
  <1>3. PICK h \in Call : h = client[c]
    BY <1>1, <1>2, CallShape
  <1>4. /\ UNCHANGED <<reviewVars, status, revived, job, post, worker, historyVars, calls, faults>>
        /\ Enqueue("execute", k)
        /\ client' = [client EXCEPT ![c] = IF h.created = {k} THEN Idle
                                           ELSE [h EXCEPT !.created = @ \ {k}]]
    BY <1>3 DEF EnqueueExecute, ClientGoesOn
  <1>5. PICK r \in {Idle} \cup Call :
          /\ client' = [client EXCEPT ![c] = r]
          /\ \A i \in Key : i \in h.created /\ i # k => r # Idle /\ r.pc # "mark" /\ i \in r.created
    <2> DEFINE g == [h EXCEPT !.created = @ \ {k}]
    <2>1. g \in Call /\ g.created = h.created \ {k} /\ g.pc = "enqueue" /\ g # Idle
      BY <1>2, <1>3 DEF Call, Idle
    <2>2. client' = [client EXCEPT ![c] = IF h.created = {k} THEN Idle ELSE g]
      BY <1>4
    <2> HIDE DEF g
    <2> QED
      BY <2>1, <2>2
  <1>6. "execute" \in Kind
    BY DEF Kind
  <1>7. /\ queue' \in [Task -> Nat] /\ \A u \in Task : queue'[u] >= queue[u]
        /\ \A u \in Task : queue'[u] > 0 => u.attempts < MaxAttempts[u.kind]
        /\ \E u \in Task : u.key = k /\ queue'[u] > 0
    BY <1>1, <1>4, <1>6, Enqueued
  <1>8. \A i \in Key : Open(i)' + credit[i] <= Open(i) + credit'[i]
    BY <1>1, <1>4 DEF Open, TypeOK, historyVars
  <1>9. \A i \in Key : Calls(c, i) => i \in h.created
    BY <1>3 DEF Calls
  <1>10. /\ job' \in [Key -> JobRow] /\ abandoned' \subseteq Key /\ abandoned' = abandoned
         /\ credit' \in [Key -> Int] /\ faults' \in 0..MaxFaults /\ calls' \in 0..MaxCalls
    BY <1>1, <1>4 DEF TypeOK, JobRow, historyVars
  <1>11. \A i \in Key : job'[i].status \in Active =>
           \/ \E t \in Task : t.key = i /\ queue'[t] > 0
           \/ r # Idle /\ r.pc # "mark" /\ i \in r.created
           \/ job[i].status \in Active /\ ~Calls(c, i)
    BY <1>4, <1>5, <1>7, <1>9
  <1> QED
    BY <1>4, <1>5, <1>7, <1>8, <1>10, <1>11, ClientKeeps

(* StartRetry: the publication has failed. *)
LEMMA StartRetryInv == ASSUME IInv, NEW c \in Client, NEW k \in Key, StartRetry(c, k) PROVE IInv'
  <1> DEFINE r == [pc |-> "mark", approval |-> CurrentApproval, todo |-> {}, created |-> {k}]
  <1>1. Shaped /\ TypeOK
    BY DEF IInv, Shaped
  <1>2. /\ client[c] = Idle /\ calls < MaxCalls /\ calls' = calls + 1
        /\ client' = [client EXCEPT ![c] = r]
        /\ UNCHANGED <<reviewVars, status, revived, job, queue, post, worker, historyVars, faults>>
    BY DEF StartRetry, ClientGoesOn
  <1>3. r \in Call
    BY <1>1, ApprovalTyped DEF Call
  <1> HIDE DEF r
  <1>4. calls' \in 0..MaxCalls
    BY <1>1, <1>2, BoundsAssumption DEF TypeOK
  <1>5. \A i \in Key : Open(i)' + credit[i] <= Open(i) + credit'[i]
    BY <1>1, <1>2 DEF Open, TypeOK, historyVars
  <1>6. ~\E i \in Key : Calls(c, i)
    BY <1>2 DEF Calls
  <1>7. /\ job' \in [Key -> JobRow] /\ queue' \in [Task -> Nat] /\ abandoned' \subseteq Key
        /\ \A t \in Task : queue'[t] >= queue[t]
        /\ \A t \in Task : queue'[t] > 0 => t.attempts < MaxAttempts[t.kind]
        /\ credit' \in [Key -> Int] /\ faults' \in 0..MaxFaults /\ abandoned' = abandoned
    BY <1>1, <1>2 DEF TypeOK, Shaped, JobRow, historyVars
  <1> QED
    BY <1>2, <1>3, <1>4, <1>5, <1>6, <1>7, ClientKeeps

(* MarkForRetry: the row gets a cause, and the call will enqueue it. *)
LEMMA MarkForRetryInv == ASSUME IInv, NEW c \in Client, NEW k \in Key, MarkForRetry(c, k) PROVE IInv'
  <1>1. Shaped /\ TypeOK
    BY DEF IInv, Shaped
  <1>2. client[c].pc = "mark" /\ client[c] # Idle /\ client[c].created = {k}
    BY <1>1, NotIdle DEF MarkForRetry
  <1>3. PICK h \in Call : h = client[c]
    BY <1>1, <1>2, CallShape
  <1>4. UNCHANGED <<reviewVars, status, revived, queue, post, worker, abandoned, calls, faults>>
    BY DEF MarkForRetry
  <1>5. \A i \in Key : ~Calls(c, i)
    BY <1>2 DEF Calls
  <1>6. /\ queue' \in [Task -> Nat] /\ abandoned' \subseteq Key /\ abandoned' = abandoned
        /\ \A t \in Task : queue'[t] >= queue[t]
        /\ \A t \in Task : queue'[t] > 0 => t.attempts < MaxAttempts[t.kind]
        /\ faults' \in 0..MaxFaults /\ calls' \in 0..MaxCalls
    BY <1>1, <1>4 DEF TypeOK, Shaped
  <1>7. CASE job[k].status = "failed"
    <2>1. /\ job' = [job EXCEPT ![k].status = "retrying"] /\ credit' = [credit EXCEPT ![k] = @ + 1]
          /\ client' = [client EXCEPT ![c] = [h EXCEPT !.pc = "status"]]
      BY <1>3, <1>7 DEF MarkForRetry, ClientGoesOn
    <2>2. PICK r \in Call : /\ client' = [client EXCEPT ![c] = r]
                            /\ r # Idle /\ r.pc # "mark" /\ r.created = {k}
      <3>1. /\ [h EXCEPT !.pc = "status"] \in Call /\ [h EXCEPT !.pc = "status"].created = h.created
            /\ [h EXCEPT !.pc = "status"].pc = "status" /\ [h EXCEPT !.pc = "status"] # Idle
        BY DEF Call, Idle
      <3> QED
        BY <1>2, <1>3, <2>1, <3>1
    <2>3. /\ job' \in [Key -> JobRow] /\ job'[k].status = "retrying"
          /\ \A i \in Key \ {k} : job'[i] = job[i]
          /\ credit' \in [Key -> Int] /\ credit'[k] = credit[k] + 1
          /\ \A i \in Key : credit[i] \in Int /\ (i # k => credit'[i] = credit[i])
      <3>1. job \in [Key -> JobRow] /\ credit \in [Key -> Int]
        BY <1>1 DEF TypeOK, JobRow
      <3>2. /\ job' \in [Key -> JobRow] /\ job'[k].status = "retrying"
            /\ \A i \in Key \ {k} : job'[i] = job[i]
        BY <2>1, <3>1 DEF JobRow, JobStatus
      <3>3. /\ credit' \in [Key -> Int] /\ credit'[k] = credit[k] + 1
            /\ \A i \in Key : credit[i] \in Int /\ (i # k => credit'[i] = credit[i])
        BY <2>1, <3>1
      <3> QED
        BY <3>2, <3>3
    <2>4. \A i \in Key : Open(i)' + credit[i] <= Open(i) + credit'[i]
      <3> SUFFICES ASSUME NEW i \in Key PROVE Open(i)' + credit[i] <= Open(i) + credit'[i]
        OBVIOUS
      <3>1. Open(i) \in {0, 1} /\ Open(i)' \in {0, 1} /\ (i # k => Open(i)' = Open(i))
        BY <2>3 DEF Open
      <3> QED
        BY <2>3, <3>1
    <2>5. \A i \in Key : job'[i].status \in Active =>
            \/ r # Idle /\ r.pc # "mark" /\ i \in r.created
            \/ job[i].status \in Active /\ ~Calls(c, i)
      BY <1>5, <2>2, <2>3
    <2> QED
      BY <1>4, <1>6, <2>2, <2>3, <2>4, <2>5, ClientKeeps
  <1>8. CASE job[k].status # "failed"
    <2>1. client' = [client EXCEPT ![c] = Idle] /\ UNCHANGED <<job, credit>>
      BY <1>8 DEF MarkForRetry, ClientGoesOn
    <2>2. \A i \in Key : Open(i)' + credit[i] <= Open(i) + credit'[i]
      BY <1>1, <2>1 DEF Open, TypeOK
    <2>3. job' \in [Key -> JobRow] /\ credit' \in [Key -> Int]
      BY <1>1, <2>1 DEF TypeOK, JobRow
    <2> QED
      BY <1>4, <1>5, <1>6, <2>1, <2>2, <2>3, ClientKeeps
  <1> QED
    BY <1>7, <1>8

(* ShowRetrying: only the status of the content changes. *)
LEMMA ShowRetryingInv == ASSUME IInv, NEW c \in Client, ShowRetrying(c) PROVE IInv'
  <1>1. Shaped /\ TypeOK
    BY DEF IInv, Shaped
  <1>2. client[c].pc = "status" /\ client[c] # Idle
    BY <1>1, NotIdle DEF ShowRetrying
  <1>3. PICK h \in Call : h = client[c]
    BY <1>1, <1>2, CallShape
  <1>4. /\ SetStatus("RETRYING") /\ client' = [client EXCEPT ![c] = [h EXCEPT !.pc = "enqueue"]]
        /\ UNCHANGED <<reviewVars, job, queue, post, worker, historyVars, calls, faults>>
    BY <1>3 DEF ShowRetrying, ClientGoesOn
  <1>5. PICK r \in Call : /\ client' = [client EXCEPT ![c] = r]
                          /\ r # Idle /\ r.pc # "mark" /\ r.created = h.created
    <2>1. /\ [h EXCEPT !.pc = "enqueue"] \in Call /\ [h EXCEPT !.pc = "enqueue"].created = h.created
          /\ [h EXCEPT !.pc = "enqueue"].pc = "enqueue" /\ [h EXCEPT !.pc = "enqueue"] # Idle
      BY DEF Call, Idle
    <2> QED
      BY <1>4, <2>1
  <1>6. "RETRYING" \in Publishable
    BY DEF Publishable
  <1>7. \A i \in Key : Open(i)' + credit[i] <= Open(i) + credit'[i]
    BY <1>1, <1>4 DEF Open, TypeOK, historyVars
  <1>8. \A i \in Key : Calls(c, i) => i \in h.created
    BY <1>3 DEF Calls
  <1>9. /\ job' \in [Key -> JobRow] /\ queue' \in [Task -> Nat] /\ abandoned' \subseteq Key
        /\ \A t \in Task : queue'[t] >= queue[t]
        /\ \A t \in Task : queue'[t] > 0 => t.attempts < MaxAttempts[t.kind]
        /\ credit' \in [Key -> Int] /\ faults' \in 0..MaxFaults /\ abandoned' = abandoned
        /\ calls' \in 0..MaxCalls
    BY <1>1, <1>4 DEF TypeOK, Shaped, JobRow, historyVars
  <1>10. \A i \in Key : job'[i].status \in Active =>
           \/ r # Idle /\ r.pc # "mark" /\ i \in r.created
           \/ job[i].status \in Active /\ ~Calls(c, i)
    BY <1>4, <1>5, <1>8
  <1> QED
    BY <1>4, <1>5, <1>6, <1>7, <1>9, <1>10, ClientKeeps

(* ClientFails: what the call looked at is abandoned. *)
LEMMA ClientFailsInv == ASSUME IInv, NEW c \in Client, ClientFails(c) PROVE IInv'
  <1>1. Shaped /\ TypeOK
    BY DEF IInv, Shaped
  <1>2. PICK h \in Call : h = client[c]
    BY <1>1, CallShape DEF ClientFails
  <1>3. /\ Suffer /\ client' = [client EXCEPT ![c] = Idle]
        /\ abandoned' = IF h.pc = "mark" THEN abandoned ELSE abandoned \cup h.created
        /\ UNCHANGED <<reviewVars, status, revived, job, queue, post, worker, credit, calls>>
    BY <1>2 DEF ClientFails, ClientGoesOn
  <1>4. \A i \in Key : Calls(c, i) => i \in abandoned'
    BY <1>2, <1>3 DEF Calls
  <1>5. abandoned \subseteq abandoned' /\ abandoned' \subseteq Key
    BY <1>1, <1>2, <1>3 DEF TypeOK, Call
  <1>6. \A i \in Key : Open(i)' + credit[i] <= Open(i) + credit'[i]
    BY <1>1, <1>3 DEF Open, TypeOK
  <1>7. /\ job' \in [Key -> JobRow] /\ queue' \in [Task -> Nat]
        /\ \A t \in Task : queue'[t] >= queue[t]
        /\ \A t \in Task : queue'[t] > 0 => t.attempts < MaxAttempts[t.kind]
        /\ credit' \in [Key -> Int] /\ faults' \in 0..MaxFaults /\ calls' \in 0..MaxCalls
    BY <1>1, <1>3, SufferTyped DEF TypeOK, Shaped, JobRow
  <1> QED
    BY <1>3, <1>4, <1>5, <1>6, <1>7, ClientKeeps

-----------------------------------------------------------------------------
(* A step that leaves publications, workers and calls alone. *)
LEMMA Aside ==
  ASSUME IInv, UNCHANGED <<job, queue, worker, client, historyVars>>, TypeOK', Standing'
  PROVE IInv'
  <1>1. Shaped /\ Minded /\ Credited
    BY DEF IInv
  <1>2. Shaped'
    BY <1>1 DEF Shaped
  <1>3. Minded'
    BY <1>1 DEF Minded, Kept, Waiting, GoesOn, historyVars
  <1>4. Credited'
    BY <1>1 DEF Credited, Open, Holders, Holds, historyVars
  <1> QED
    BY <1>2, <1>3, <1>4 DEF IInv

(* Review: an approval ends a rejection; nothing else leaves review. *)
LEMMA ReviewInv == ASSUME IInv, Review PROVE IInv'
  <1>1. TypeOK /\ Standing
    BY DEF IInv, Shaped
  <1> USE DEF historyVars
  <1>2. ASSUME NEW v \in Version, Edit(v) PROVE IInv'
    BY <1>1, <1>2, Aside, BoundsAssumption DEF Edit, TypeOK, Standing
  <1>3. ASSUME NEW v \in Version, SaveProposal(v) PROVE IInv'
    BY <1>1, <1>3, Aside DEF SaveProposal, TypeOK, Standing, InReview
  <1>4. CASE Propose
    BY <1>1, <1>4, Aside, BoundsAssumption DEF Propose, TypeOK, Standing
  <1>5. CASE Request
    BY <1>1, <1>5, Aside, BoundsAssumption DEF Request, TypeOK, Standing
  <1>6. CASE SavePending
    BY <1>1, <1>6, Aside DEF SavePending, TypeOK, Standing, InReview, Idle
  <1>7. ASSUME NEW b \in BOOLEAN, Decide(b) PROVE IInv'
    <2>1. approvals' \in Seq(Version) /\ Len(approvals') <= MaxApprovals
      BY <1>1, <1>7, BoundsAssumption DEF Decide, TypeOK
    <2>2. status' \in InReview \cup Publishable /\ verdict' \in {"none", "approved", "rejected"}
      BY <1>7 DEF Decide, InReview, Publishable
    <2>3. TypeOK'
      BY <1>1, <1>7, <2>1, <2>2 DEF Decide, TypeOK
    <2>4. Standing'
      BY <1>7 DEF Decide, Standing, InReview
    <2> QED
      BY <1>7, <2>3, <2>4, Aside DEF Decide
  <1> QED
    BY <1>2, <1>3, <1>4, <1>5, <1>6, <1>7 DEF Review

(* The provider acts on its own. *)
LEMMA ProviderActsInv ==
  ASSUME IInv, NEW k \in Key, NEW s \in {"published", "failed"}, ProviderActs(k, s) PROVE IInv'
  <1>1. TypeOK /\ Standing
    BY DEF IInv, Shaped
  <1>2. TypeOK'
    BY <1>1 DEF ProviderActs, TypeOK, reviewVars, historyVars
  <1>3. Standing'
    BY <1>1 DEF ProviderActs, Standing, reviewVars
  <1> QED
    BY <1>2, <1>3, Aside DEF ProviderActs, historyVars

(* The initial states satisfy the invariant: the first execution has a     *)
(* cause, and nobody holds one.                                            *)
LEMMA InitInv == Init => IInv
  <1> SUFFICES ASSUME Init PROVE IInv
    OBVIOUS
  <1> USE DEF Init
  <1>1. TypeOK
    <2>1. job \in [Key -> [status : JobStatus, approval : 0..MaxApprovals, ref : BOOLEAN]]
      BY BoundsAssumption DEF JobStatus
    <2>2. approvals \in Seq(Version) /\ Len(approvals) <= MaxApprovals
      BY BoundsAssumption
    <2>3. /\ reviews \in 0..MaxReviews /\ edits \in 0..MaxEdits
          /\ calls \in 0..MaxCalls /\ faults \in 0..MaxFaults
      BY BoundsAssumption
    <2>4. status \in InReview \cup Publishable /\ version \in Version /\ pending \in Version \cup {None}
      BY VersionAssumption DEF InReview
    <2>5. queue \in [Task -> Nat] /\ credit \in [Key -> Int]
      OBVIOUS
    <2> QED
      BY <2>1, <2>2, <2>3, <2>4, <2>5 DEF TypeOK
  <1>2. Shaped
    BY <1>1 DEF Shaped, Handler
  <1>3. Minded
    BY DEF Minded, Active, Idle
  <1>4. Credited
    <2> SUFFICES ASSUME NEW k \in Key PROVE Open(k) + Cardinality(Holders(k)) <= credit[k]
      BY DEF Credited
    <2>1. Holders(k) = {}
      BY DEF Holders, Holds
    <2>2. Cardinality(Holders(k)) = 0
      BY <2>1, FS_EmptySet
    <2> QED
      BY <2>2 DEF Open, Executable
  <1>5. Standing
    BY DEF Standing
  <1> QED
    BY <1>2, <1>3, <1>4, <1>5 DEF IInv

(* Every step preserves the invariant. *)
LEMMA NextInv == IInv /\ [Next]_vars => IInv'
  <1> SUFFICES ASSUME IInv, [Next]_vars PROVE IInv'
    OBVIOUS
  <1>1. CASE Review
    BY <1>1, ReviewInv
  <1>2. ASSUME NEW c \in Client, ClientStep(c) PROVE IInv'
    BY <1>2, StartCreateInv, EnterPublicationInv, ShowRetryingInv, EnsureJobInv,
       EnqueueExecuteInv, StartRetryInv, MarkForRetryInv DEF ClientStep
  <1>3. ASSUME NEW c \in Client, ClientFails(c) PROVE IInv'
    BY <1>3, ClientFailsInv
  <1>4. ASSUME NEW w \in Worker, NEW t \in Task, Claim(w, t) PROVE IInv'
    BY <1>4, ClaimInv
  <1>5. ASSUME NEW w \in Worker, Handle(w) PROVE IInv'
    BY <1>5, FinishInv, GuardInv, MarkPublishingInv, AnsweredInv, WriteRowInv, PutStatusInv,
       HandOverInv DEF Handle
  <1>6. ASSUME NEW w \in Worker, StatementFails(w) \/ Crash(w) PROVE IInv'
    BY <1>6, StatementFailsInv, CrashInv
  <1>7. ASSUME NEW w \in Worker, NEW b \in BOOLEAN, MediaFails(w, b) \/ CallThrows(w, b) PROVE IInv'
    BY <1>7, MediaFailsInv, CallThrowsInv
  <1>8. ASSUME NEW k \in Key, NEW s \in {"published", "failed"}, ProviderActs(k, s) PROVE IInv'
    BY <1>8, ProviderActsInv
  <1>9. CASE UNCHANGED vars
    <2>1. TypeOK /\ Standing
      BY DEF IInv, Shaped
    <2>2. TypeOK'
      BY <1>9, <2>1 DEF vars, TypeOK, reviewVars, historyVars
    <2>3. Standing'
      BY <1>9, <2>1 DEF vars, Standing, reviewVars
    <2> QED
      BY <1>9, <2>2, <2>3, Aside DEF vars, historyVars
  <1> QED
    BY <1>1, <1>2, <1>3, <1>4, <1>5, <1>6, <1>7, <1>8, <1>9 DEF Next

LEMMA Invariance == Spec => []IInv
  <1> QED
    BY InitInv, NextInv, PTL DEF Spec

-----------------------------------------------------------------------------
(* The variables stay within their types: attempts of a background job     *)
(* never exceed their maximum, and publication only writes its statuses.   *)
THEOREM TypeCorrect == Spec => []TypeOK
  <1>1. IInv => TypeOK
    BY DEF IInv, Shaped
  <1> QED
    BY <1>1, Invariance, PTL

(* No publication is left half-way without somebody who will look at it,   *)
(* unless it was abandoned by a death, an exhausted background job or a    *)
(* call that found the content gone.                                       *)
THEOREM NobodyIsStranded == Spec => []NothingStranded
  <1>1. IInv => NothingStranded
    <2> SUFFICES ASSUME IInv, NEW k \in Key, job[k].status \in Active
                 PROVE Watched(k) \/ k \in abandoned
      BY DEF NothingStranded, Active
    <2>1. Kept(k) \/ k \in abandoned
      BY DEF IInv, Minded
    <2> QED
      BY <2>1 DEF Kept, Waiting, GoesOn, Watched
  <1> QED
    BY <1>1, Invariance, PTL

(* An execution never calls the provider without a cause, however many     *)
(* executions of a job overlap and whatever fails: the conditional update  *)
(* to publishing hands each cause to one call.                             *)
THEOREM ReplaysHaveACause == Spec => []NoBlindReplay
  <1>1. IInv => NoBlindReplay
    <2> SUFFICES ASSUME IInv, NEW k \in Key PROVE credit[k] >= 0
      BY DEF NoBlindReplay
    <2>1. Open(k) + Cardinality(Holders(k)) <= credit[k] /\ credit[k] \in Int
      BY DEF IInv, Credited, Shaped, TypeOK
    <2>2. Cardinality(Holders(k)) \in Nat
      BY WorkersAssumption, FS_Subset, FS_CardinalityType DEF Holders
    <2>3. Open(k) \in {0, 1}
      BY DEF Open
    <2> QED
      BY <2>1, <2>2, <2>3
  <1> QED
    BY <1>1, Invariance, PTL

(* After a rejection no approval is current, unless a status write of      *)
(* publication went over the review status.                                *)
THEOREM RejectionsStand == Spec => []RejectionStands
  <1>1. IInv => RejectionStands
    BY DEF IInv, Shaped, TypeOK, Standing, RejectionStands, CurrentApproval, InReview, Publishable
  <1> QED
    BY <1>1, Invariance, PTL
=============================================================================
