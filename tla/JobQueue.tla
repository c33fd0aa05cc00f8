------------------------------ MODULE JobQueue ------------------------------
(***************************************************************************)
(* The durable job queue of the agent engine (table job_queue) and the     *)
(* worker processes that drain it.                                         *)
(*                                                                         *)
(* Every SQL statement of lib/agent-engine/queue/queue.ts is one           *)
(* transaction and becomes one action.  Between the claim of a row and the *)
(* statement that closes it, the handler runs for an arbitrary time in the *)
(* process that claimed it: nothing renews the lease, so a handler slower  *)
(* than QUEUE_VISIBILITY_TIMEOUT_MS keeps running after the reaper gave    *)
(* its row back.  Such a run is "stale" here; the run of the current lease *)
(* is "live".                                                              *)
(*                                                                         *)
(* Time is abstracted to two bits of a row: due (run_after <= now()) and   *)
(* expired (locked_at older than the visibility timeout).  The order in    *)
(* which due rows are claimed (priority, run_after) is left open: no       *)
(* property here depends on it.                                            *)
(*                                                                         *)
(* Names of the form Operator_Mutation are plausible mistakes in the code  *)
(* of Operator; each is kept to show which property would notice it.       *)
(***************************************************************************)
EXTENDS Integers, FiniteSets

CONSTANTS
  Job,            \* rows that may be inserted in job_queue
  Contact,        \* contacts: a lane of the queue is a contact
  Event,          \* event_log ids a job may originate from (source_event_id)
  Worker,         \* worker ids, agent-engine-<hostname>-<pid>
  None,           \* SQL null: no contact, no source event, no lock owner
  MaxAttempts,    \* max_attempts of every row
  MaxConcurrency, \* QUEUE_MAX_CONCURRENCY
  MaxReschedules, \* bound: times rows are rescheduled, all together
  MaxStops        \* bound: crashes and shutdowns of worker processes

ASSUME JobAssumption == IsFiniteSet(Job)
ASSUME NoneAssumption ==
  None \notin Contact \cup Event \cup Worker
ASSUME MaxAttemptsAssumption == MaxAttempts \in Nat \ {0}
ASSUME MaxConcurrencyAssumption == MaxConcurrency \in Nat \ {0}
ASSUME BoundsAssumption == MaxReschedules \in Nat /\ MaxStops \in Nat

VARIABLES
  status,       \* job_queue.status, "absent" before the insert
  contact,      \* job_queue.contact_id
  source,       \* job_queue.source_event_id
  attempts,     \* job_queue.attempts
  lockedBy,     \* job_queue.locked_by
  due,          \* rows with run_after <= now()
  expired,      \* rows with locked_at < now() - visibility timeout
  alerts,       \* agent_inbox_items of kind job_dead that refer to the row
  live,         \* rows whose handler of the current lease is in flight
  staleRuns,    \* handlers in flight whose lease was taken from them
  process,      \* state of the worker process
  rescheduled,  \* times rows were rescheduled so far (bounded)
  stops,        \* crashes and shutdowns so far (bounded)
  lateVerdicts, \* history: rows settled by a run that had lost its lease
  outlived      \* history: rows a handler of which outlived its lease

rowVars == <<status, contact, source, attempts, lockedBy, due, expired, alerts>>
runVars == <<live, staleRuns>>
history == <<lateVerdicts, outlived>>
vars == <<rowVars, runVars, process, rescheduled, stops, history>>

Terminal == {"done", "failed", "dead"}
Status == {"absent", "pending", "running"} \cup Terminal
RunKind == {"live", "stale"}

(* One row per job, one process per worker id. *)
TypeOK ==
  /\ status \in [Job -> Status]
  /\ contact \in [Job -> Contact \cup {None}]
  /\ source \in [Job -> Event \cup {None}]
  /\ attempts \in [Job -> 0..MaxAttempts]
  /\ lockedBy \in [Job -> Worker \cup {None}]
  /\ due \subseteq Job
  /\ expired \subseteq Job
  /\ alerts \in [Job -> Nat]
  /\ live \subseteq Job
  /\ staleRuns \in [Job -> [Worker -> Nat]]
  /\ process \in [Worker -> {"up", "draining", "down"}]
  /\ rescheduled \in 0..MaxReschedules
  /\ stops \in 0..MaxStops
  /\ lateVerdicts \subseteq Job
  /\ outlived \subseteq Job

Running == {j \in Job : status[j] = "running"}

(* The fence of completeJob, failJob, cancelJob and rescheduleJob: the row *)
(* is running and locked by this worker id.                                *)
HoldsLease(w, j) == status[j] = "running" /\ lockedBy[j] = w

(* The run of kind k of job j is in flight in process w. *)
InFlight(w, j, k) ==
  \/ k = "live" /\ j \in live /\ lockedBy[j] = w
  \/ k = "stale" /\ staleRuns[j][w] > 0

(* Handlers of job j in flight in process w. *)
RunsIn(w, j) ==
  staleRuns[j][w] + (IF j \in live /\ lockedBy[j] = w THEN 1 ELSE 0)

-----------------------------------------------------------------------------
Init ==
  /\ status = [j \in Job |-> "absent"]
  /\ contact = [j \in Job |-> None]
  /\ source = [j \in Job |-> None]
  /\ attempts = [j \in Job |-> 0]
  /\ lockedBy = [j \in Job |-> None]
  /\ due = {}
  /\ expired = {}
  /\ alerts = [j \in Job |-> 0]
  /\ live = {}
  /\ staleRuns = [j \in Job |-> [w \in Worker |-> 0]]
  /\ process = [w \in Worker |-> "down"]
  /\ rescheduled = 0
  /\ stops = 0
  /\ lateVerdicts = {}
  /\ outlived = {}

(* enqueueJob: the insert succeeds when no row of the organization has the *)
(* same source event; otherwise the 23505 is caught and the existing row   *)
(* is returned, which changes nothing.                                     *)
Enqueue(j, c, e, now) ==
  /\ status[j] = "absent"
  /\ e = None \/ \A i \in Job : source[i] # e
  /\ status' = [status EXCEPT ![j] = "pending"]
  /\ contact' = [contact EXCEPT ![j] = c]
  /\ source' = [source EXCEPT ![j] = e]
  /\ due' = IF now THEN due \cup {j} ELSE due
  /\ UNCHANGED <<attempts, lockedBy, expired, alerts, runVars, process,
                 rescheduled, stops, history>>

Claimable_NoLaneCheck(j) == status[j] = "pending" /\ j \in due
Claimable_AnyStatus(j) ==
  /\ status[j] # "running" /\ j \in due
  /\ contact[j] = None \/ \A i \in Running : contact[i] # contact[j]

(* Rows the claim may take: pending, due, and no running row of the same   *)
(* contact (a row without contact is a lane of its own).                   *)
Claimable(j) ==
  /\ status[j] = "pending" /\ j \in due
  /\ contact[j] = None \/ \A i \in Running : contact[i] # contact[j]

OnePerLane_Forgotten(S) == TRUE

(* distinct on (coalesce(contact_id, id)): one row per lane in a batch. *)
OnePerLane(S) ==
  \A i, j \in S : i # j => contact[i] = None \/ contact[i] # contact[j]

(* limit: the batch takes no more than the cap leaves. *)
FitsCap(S) == Cardinality(Running) + Cardinality(S) <= MaxConcurrency

Claim_NotCounted(w, S, received) ==
  /\ process[w] = "up"
  /\ S # {} /\ \A j \in S : Claimable(j)
  /\ OnePerLane(S) /\ FitsCap(S)
  /\ status' = [j \in Job |-> IF j \in S THEN "running" ELSE status[j]]
  /\ lockedBy' = [j \in Job |-> IF j \in S THEN w ELSE lockedBy[j]]
  /\ expired' = expired \ S
  /\ live' = IF received THEN live \cup S ELSE live
  /\ UNCHANGED <<contact, source, attempts, due, alerts, staleRuns, process,
                 rescheduled, stops, history>>

(* claimJobs: the advisory lock makes count and update one step, so the    *)
(* batch fits in what is left of the global cap.  skip locked may leave    *)
(* out rows another transaction holds.  The rows reach the process, which  *)
(* starts a handler for each, unless the answer of the commit is lost.     *)
Claim(w, S, received) ==
  /\ process[w] = "up"
  /\ S # {} /\ \A j \in S : Claimable(j)
  /\ OnePerLane(S) /\ FitsCap(S)
  /\ status' = [j \in Job |-> IF j \in S THEN "running" ELSE status[j]]
  /\ lockedBy' = [j \in Job |-> IF j \in S THEN w ELSE lockedBy[j]]
  /\ expired' = expired \ S
  /\ attempts' = [j \in Job |-> attempts[j] + (IF j \in S THEN 1 ELSE 0)]
  /\ live' = IF received THEN live \cup S ELSE live
  /\ UNCHANGED <<contact, source, due, alerts, staleRuns, process,
                 rescheduled, stops, history>>

(* One run of process w for job j ends with a statement that released the  *)
(* lease; whatever else w still runs for j has lost its lease.             *)
EndRunReleasing(w, j) ==
  /\ live' = live \ {j}
  /\ staleRuns' = [staleRuns EXCEPT ![j][w] = RunsIn(w, j) - 1]

(* The row leaves running for status s. *)
ReleaseRow(j, s) ==
  /\ status' = [status EXCEPT ![j] = s]
  /\ lockedBy' = [lockedBy EXCEPT ![j] = None]
  /\ expired' = expired \ {j}

(* The run of kind k writes the verdict of the row. *)
Settles(j, k) == lateVerdicts' = IF k = "stale" THEN lateVerdicts \cup {j} ELSE lateVerdicts

(* completeJob, called when the handler returned: update ... where running *)
(* and locked_by = worker.  Matching no row it throws, the transaction     *)
(* rolls back and runJob calls failJob: see RunFails and RunEndsSilently.  *)
RunCompletes(w, j, k) ==
  /\ InFlight(w, j, k)
  /\ HoldsLease(w, j)
  /\ ReleaseRow(j, "done")
  /\ EndRunReleasing(w, j)
  /\ Settles(j, k)
  /\ UNCHANGED <<contact, source, attempts, due, alerts, process, rescheduled, stops,
                 outlived>>

GivenBack_NeverDead(j) == "pending"
GivenBack_OneShort(j) == IF attempts[j] >= MaxAttempts - 1 THEN "dead" ELSE "pending"

(* Where a row goes that is given back: dead once attempts are exhausted. *)
GivenBack(j) == IF attempts[j] >= MaxAttempts THEN "dead" ELSE "pending"

RunFails_NoAlert(w, j, k) ==
  /\ InFlight(w, j, k)
  /\ HoldsLease(w, j)
  /\ ReleaseRow(j, GivenBack(j))
  /\ IF GivenBack(j) = "dead" THEN Settles(j, k) ELSE UNCHANGED lateVerdicts
  /\ EndRunReleasing(w, j)
  /\ UNCHANGED <<contact, source, attempts, due, alerts, process, rescheduled, stops,
                 outlived>>

(* failJob, called when the handler or completeJob threw: back to pending   *)
(* with run_after untouched, or dead with its alert in the same statement. *)
RunFails(w, j, k) ==
  /\ InFlight(w, j, k)
  /\ HoldsLease(w, j)
  /\ ReleaseRow(j, GivenBack(j))
  /\ alerts' = [alerts EXCEPT ![j] = @ + (IF GivenBack(j) = "dead" THEN 1 ELSE 0)]
  /\ IF GivenBack(j) = "dead" THEN Settles(j, k) ELSE UNCHANGED lateVerdicts
  /\ EndRunReleasing(w, j)
  /\ UNCHANGED <<contact, source, attempts, due, process, rescheduled, stops, outlived>>

(* cancelJob from the handler (permanent veto): failed, terminal, no alert. *)
(* The handler then throws and failJob finds no running row.               *)
RunCancels(w, j, k) ==
  /\ InFlight(w, j, k)
  /\ HoldsLease(w, j)
  /\ ReleaseRow(j, "failed")
  /\ EndRunReleasing(w, j)
  /\ Settles(j, k)
  /\ UNCHANGED <<contact, source, attempts, due, alerts, process, rescheduled, stops,
                 outlived>>

(* rescheduleJob: pending later, and the attempt of the claim is undone. *)
RunReschedules(w, j, k) ==
  /\ InFlight(w, j, k)
  /\ HoldsLease(w, j)
  /\ rescheduled < MaxReschedules
  /\ ReleaseRow(j, "pending")
  /\ due' = due \ {j}
  /\ attempts' = [attempts EXCEPT ![j] = IF @ > 0 THEN @ - 1 ELSE 0]
  /\ rescheduled' = rescheduled + 1
  /\ EndRunReleasing(w, j)
  /\ UNCHANGED <<contact, source, alerts, process, stops, history>>

(* A run ends and changes no row: failJob was unavailable (the error is    *)
(* only logged), or a stale run found its lease gone in both statements.   *)
RunEndsSilently(w, j, k) ==
  /\ InFlight(w, j, k)
  /\ IF k = "live"
       THEN live' = live \ {j} /\ UNCHANGED staleRuns
       ELSE staleRuns' = [staleRuns EXCEPT ![j][w] = @ - 1] /\ UNCHANGED live
  /\ UNCHANGED <<rowVars, process, rescheduled, stops, history>>

(* One statement gives back a set of rows, each to pending or dead with an  *)
(* alert.  Handlers still in flight for those rows become stale.           *)
GiveBackAll(R) ==
  LET Ends(j) == j \in R /\ GivenBack(j) = "dead"
  IN /\ status' = [j \in Job |-> IF j \in R THEN GivenBack(j) ELSE status[j]]
     /\ lockedBy' = [j \in Job |-> IF j \in R THEN None ELSE lockedBy[j]]
     /\ expired' = expired \ R
     /\ alerts' = [j \in Job |-> alerts[j] + (IF Ends(j) THEN 1 ELSE 0)]
     /\ live' = live \ R
     /\ staleRuns' = [j \in Job |-> [w \in Worker |->
                        IF j \in R THEN RunsIn(w, j) ELSE staleRuns[j][w]]]
     /\ UNCHANGED <<contact, source, attempts, due, rescheduled, history>>

ReapExpired_IgnoresAge == GiveBackAll(Running)
ReapExpired_SkipsExhausted ==
  GiveBackAll({j \in Running : j \in expired /\ attempts[j] < MaxAttempts})

(* reapExpiredJobs. *)
ReapExpired == GiveBackAll(Running \cap expired)

(* The reaper's timer in a process that is not shutting down. *)
Reap(w) ==
  /\ process[w] = "up"
  /\ Running \cap expired # {}
  /\ ReapExpired
  /\ UNCHANGED <<process, stops>>

(* A process boots: it releases orphans before it starts claiming. *)
Boot(w) ==
  /\ process[w] = "down"
  /\ process' = [process EXCEPT ![w] = "up"]
  /\ ReapExpired
  /\ UNCHANGED stops

(* SIGTERM or SIGINT: claiming and reaping stop, runs in flight go on. *)
BeginShutdown(w) ==
  /\ process[w] = "up" /\ stops < MaxStops
  /\ process' = [process EXCEPT ![w] = "draining"]
  /\ stops' = stops + 1
  /\ UNCHANGED <<rowVars, runVars, rescheduled, history>>

(* The process ends and its runs with it. *)
Dies(w) ==
  /\ process' = [process EXCEPT ![w] = "down"]
  /\ live' = {j \in live : lockedBy[j] # w}
  /\ staleRuns' = [j \in Job |-> [staleRuns[j] EXCEPT ![w] = 0]]
  /\ UNCHANGED <<rowVars, rescheduled, history>>

(* The end of a shutdown: drained, or SHUTDOWN_GRACE_MS elapsed with runs  *)
(* in flight and process.exit(1).                                          *)
Exit(w) ==
  /\ process[w] = "draining"
  /\ Dies(w)
  /\ UNCHANGED stops

(* SIGKILL, out of memory, power loss. *)
Crash(w) ==
  /\ process[w] = "up" /\ stops < MaxStops
  /\ Dies(w)
  /\ stops' = stops + 1

(* Time passes for a row that waits for its run_after. *)
BecomeDue(j) ==
  /\ status[j] = "pending" /\ j \notin due
  /\ due' = due \cup {j}
  /\ UNCHANGED <<status, contact, source, attempts, lockedBy, expired, alerts,
                 runVars, process, rescheduled, stops, history>>

(* Time passes for a lease: locked_at is older than the visibility timeout, *)
(* whether or not its handler has ended.                                    *)
LeaseExpires(j) ==
  /\ status[j] = "running" /\ j \notin expired
  /\ expired' = expired \cup {j}
  /\ outlived' = outlived \cup (live \cap {j})
  /\ UNCHANGED <<status, contact, source, attempts, lockedBy, due, alerts,
                 runVars, process, rescheduled, stops, lateVerdicts>>

-----------------------------------------------------------------------------
RunStep(w, j) ==
  \E k \in RunKind :
    \/ RunCompletes(w, j, k)
    \/ RunFails(w, j, k)
    \/ RunCancels(w, j, k)
    \/ RunReschedules(w, j, k)
    \/ RunEndsSilently(w, j, k)

ClaimSome(w) == \E S \in SUBSET Job, received \in BOOLEAN : Claim(w, S, received)

Next ==
  \/ \E j \in Job, c \in Contact \cup {None}, e \in Event \cup {None}, now \in BOOLEAN :
       Enqueue(j, c, e, now)
  \/ \E w \in Worker : ClaimSome(w)
  \/ \E w \in Worker, j \in Job : RunStep(w, j)
  \/ \E w \in Worker : Reap(w)
  \/ \E w \in Worker : Boot(w)
  \/ \E w \in Worker : BeginShutdown(w)
  \/ \E w \in Worker : Exit(w)
  \/ \E w \in Worker : Crash(w)
  \/ \E j \in Job : BecomeDue(j)
  \/ \E j \in Job : LeaseExpires(j)

Spec == Init /\ [][Next]_vars

(* What the runtime guarantees: time passes, the supervisor restarts a     *)
(* stopped worker, a shutdown ends, the worker loop keeps polling and the  *)
(* reaper's timer keeps firing.  Nothing is assumed of the handlers.       *)
Fairness ==
  /\ \A j \in Job : WF_vars(BecomeDue(j)) /\ WF_vars(LeaseExpires(j))
  /\ \A w \in Worker : WF_vars(Boot(w)) /\ WF_vars(Exit(w))
  /\ \A w \in Worker : WF_vars(ClaimSome(w)) /\ WF_vars(Reap(w))

FairSpec == Spec /\ Fairness
-----------------------------------------------------------------------------
(* Safety of the rows. *)

(* At most one running row per contact: what the partial unique index      *)
(* uniq_job_queue_one_running_per_contact backs and the claim maintains.   *)
LaneExclusive ==
  \A i, j \in Running : i # j => contact[i] = None \/ contact[i] # contact[j]

(* The running rows of all processes together never exceed the global cap. *)
CapRespected == Cardinality(Running) <= MaxConcurrency

(* A row is locked exactly while it runs, and only such a row can expire. *)
LockedIffRunning ==
  /\ \A j \in Job : status[j] = "running" <=> lockedBy[j] # None
  /\ expired \subseteq Running

(* A handler that is not stale runs in the process that locks its row. *)
LiveRunHoldsLease ==
  \A j \in live : status[j] = "running" /\ process[lockedBy[j]] # "down"

(* A process that is down runs no stale handler either. *)
DownRunsNothing ==
  \A j \in Job, w \in Worker : process[w] = "down" => staleRuns[j][w] = 0

(* Rows, leases, handlers and processes agree: no lock without a running   *)
(* row, no live handler without the lock, no handler in a dead process.    *)
LeaseConsistent == LockedIffRunning /\ LiveRunHoldsLease /\ DownRunsNothing

(* Exactly the dead rows have an alert, one each, whichever of failJob and *)
(* the reaper killed them; and a row dies only with its attempts used up.  *)
DeadIsAlerted ==
  \A j \in Job : IF status[j] = "dead" THEN alerts[j] = 1 /\ attempts[j] = MaxAttempts
                                       ELSE alerts[j] = 0

(* An event never becomes two jobs, however often it is delivered. *)
OneJobPerEvent ==
  \A i, j \in Job : i # j /\ source[i] # None => source[i] # source[j]

(* A settled row never leaves its verdict, whatever stale runs, retries of *)
(* statements and reapers do later: what completeJob commits with it is    *)
(* committed once.                                                         *)
SettledForGood ==
  [][\A j \in Job : status[j] \in Terminal => status'[j] = status[j]]_vars

(* Before the visibility timeout only a handler of the process that holds  *)
(* the lease ends it: neither the reaper nor another process takes it.     *)
UnexpiredLeaseIsSafe ==
  [][\A j \in Job :
       status[j] = "running" /\ j \notin expired /\ status'[j] # "running"
         => \E w \in Worker : HoldsLease(w, j) /\ RunsIn(w, j)' = RunsIn(w, j) - 1]_vars

(* The queue implements the promise of LaneLeases. *)
Phase(j) == CASE status[j] = "pending" -> "waiting"
              [] status[j] = "running" -> "leased"
              [] OTHER -> status[j]

Promise == INSTANCE LaneLeases WITH
  Cap <- MaxConcurrency,
  phase <- [j \in Job |-> Phase(j)],
  lane <- contact,
  alerted <- {j \in Job : alerts[j] > 0}

ImplementsPromise == Promise!Spec

(* Every accepted job is settled in the end, even if handlers hang and     *)
(* processes crash: the reaper takes hung leases back and attempts end.    *)
EveryJobSettles ==
  \A j \in Job : status[j] # "absent" ~> status[j] \in Terminal

(* The handlers of a job in flight in all processes, numbered in each.     *)
Handlers(j) == UNION {{w} \X (1..RunsIn(w, j)) : w \in Worker}

(* The handlers of one job that run at the same time, stale ones included, *)
(* never outnumber the attempts counted in its row, hence max_attempts:    *)
(* rescheduling undoes an attempt only as it ends a run.                   *)
RunsWithinAttempts == \A j \in Job : Cardinality(Handlers(j)) <= attempts[j]

-----------------------------------------------------------------------------
(* Two claims of the code's comments about handlers, as opposed to rows.   *)

(* Handlers in flight for jobs of one contact: at most one, in all         *)
(* processes together, unless one of those jobs has had a handler slower   *)
(* than the visibility timeout.  "lane do contato ja serializa este        *)
(* handler" (followup-turn.ts) holds up to exactly that.                   *)
HandlersSerialized ==
  \A i, j \in Job, v, w \in Worker :
    /\ contact[i] # None /\ contact[i] = contact[j]
    /\ RunsIn(v, i) > 0 /\ RunsIn(w, j) > 0
    => \/ i = j /\ v = w /\ RunsIn(w, j) = 1
       \/ i \in outlived \/ j \in outlived

=============================================================================
