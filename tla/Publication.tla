----------------------------- MODULE Publication -----------------------------
(***************************************************************************)
(* Publishing an approved content item on the social platforms: the        *)
(* approval and scheduling services, the rows of publish_jobs, the         *)
(* background jobs that execute and reconcile them, and the provider.      *)
(*                                                                         *)
(* One content item.  Its review snapshot (script, media, variants,        *)
(* accounts, time) is one value, its version; two snapshots have the same  *)
(* hash exactly when they are the same version.  A publish job is named by *)
(* its idempotency key, which the provider honours as well.                *)
(*                                                                         *)
(* Every statement of a handler that another process can see is an action, *)
(* except that syncContentPublicationStatus reads right after the update   *)
(* of the row that precedes it.                                            *)
(***************************************************************************)
EXTENDS Integers, Sequences, FiniteSets

CONSTANTS
  Platform,     \* platforms of the content, one variant and account each
  Version,      \* review snapshots the content may have
  First,        \* the one it starts with
  Mode,         \* publish mode of the snapshots: "schedule" or "now"
  Worker,       \* processes that run runOnce
  Client,       \* calls of createPublishJobs and retryPublishJob
  None,
  MaxAttempts,  \* maxAttempts of a background job, by kind (3 and 20)
  MaxApprovals, \* bound: decisions that approve
  MaxReviews,   \* bound: requests for approval
  MaxEdits,     \* bound: edits and schedule proposals
  MaxCalls,     \* bound: API calls
  MaxQueue,     \* bound: background jobs that wait at the same time
  MaxFaults     \* bound: faults, of any kind

Kind == {"execute", "reconcile"}

ASSUME WorkersAssumption == IsFiniteSet(Worker)
ASSUME ModeAssumption == Mode \in {"schedule", "now"}
ASSUME VersionAssumption == First \in Version /\ None \notin Version
ASSUME AttemptsAssumption == MaxAttempts \in [Kind -> Nat \ {0}]
ASSUME BoundsAssumption ==
  MaxApprovals \in Nat /\ MaxReviews \in Nat /\ MaxEdits \in Nat
  /\ MaxCalls \in Nat /\ MaxQueue \in Nat /\ MaxFaults \in Nat

(* The idempotency key hashes the variant, the snapshot and the execution  *)
(* time: proposed with the snapshot, or else when the owner decided.       *)
Key == [platform : Platform, version : Version,
        at : IF Mode = "schedule" THEN {0} ELSE 1..MaxApprovals]
Task == UNION {[kind : {q}, key : Key, attempts : 0..MaxAttempts[q]] : q \in Kind}

VARIABLES
  status,     \* content_items.status
  version,    \* the snapshot the content has now
  pending,    \* review_snapshot_hash: what the owner was asked to approve
  approvals,  \* versions approved, in the order of decided_at; id = index
  job,        \* publish_jobs, by idempotency key
  queue,      \* background_jobs in status queued: how many of each
  post,       \* external: the provider's post, by idempotency key
  worker,     \* what a process has in hand
  client,     \* what an API call has in hand
  editor,     \* what a proposal or a request read and has not written yet
  verdict,    \* history: the last decision of the owner
  revived,    \* history: publication overwrote a review status
  abandoned,  \* history: keys whose background job or client is gone
  credit,     \* history: executions with a cause that did not call yet, by key
  reviews, edits, calls, faults  \* bounded counters

reviewVars == <<version, pending, approvals, editor, reviews, edits, verdict>>
historyVars == <<abandoned, credit>>
vars == <<reviewVars, status, revived, job, queue, post, worker, client, historyVars, calls, faults>>

InReview == {"READY_FOR_REVIEW", "PENDING_APPROVAL", "REJECTED"}

(* CURRENT_APPROVAL_STATUSES. *)
Publishable == {"APPROVED", "SCHEDULED", "PUBLISHING", "RETRYING", "FAILED", "PUBLISHED"}

JobStatus == {"absent", "queued", "scheduled", "publishing", "published", "failed",
              "retrying", "reconcile_required"}

Idle == [pc |-> "idle"]

TypeOK ==
  /\ status \in InReview \cup Publishable
  /\ version \in Version /\ pending \in Version \cup {None}
  /\ approvals \in Seq(Version) /\ Len(approvals) <= MaxApprovals
  /\ job \in [Key -> [status : JobStatus, approval : 0..MaxApprovals, ref : BOOLEAN]]
  /\ queue \in [Task -> Nat]
  /\ post \in [Key -> {"none", "scheduled", "published", "failed"}]
  /\ \A w \in Worker : worker[w] = Idle \/ worker[w].task \in Task
  /\ editor \in {Idle} \cup [pc : {"propose"}, approved : BOOLEAN]
                      \cup [pc : {"request"}, version : Version]
  /\ verdict \in {"none", "approved", "rejected"} /\ revived \in BOOLEAN
  /\ abandoned \subseteq Key
  /\ credit \in [Key -> Int]
  /\ reviews \in 0..MaxReviews /\ edits \in 0..MaxEdits
  /\ calls \in 0..MaxCalls /\ faults \in 0..MaxFaults

Init ==
  /\ status = "READY_FOR_REVIEW" /\ version = First /\ pending = None /\ approvals = <<>>
  /\ job = [k \in Key |-> [status |-> "absent", approval |-> 0, ref |-> FALSE]]
  /\ queue = [t \in Task |-> 0]
  /\ post = [k \in Key |-> "none"]
  /\ worker = [w \in Worker |-> Idle] /\ client = [c \in Client |-> Idle] /\ editor = Idle
  /\ verdict = "none" /\ revived = FALSE /\ abandoned = {}
  /\ credit = [k \in Key |-> 1]
  /\ reviews = 0 /\ edits = 0 /\ calls = 0 /\ faults = 0

Suffer == faults < MaxFaults /\ faults' = faults + 1

(* A write of content_items.status by publication, whatever it is now. *)
SetStatus(s) ==
  /\ status' = s
  /\ revived' = (revived \/ (status \in InReview /\ s \in Publishable))

CurrentApproval_AnyStatus ==
  IF approvals # <<>> /\ approvals[Len(approvals)] = version THEN Len(approvals) ELSE 0

(* assertCurrentApproval: the id of the latest approval, 0 where it throws. *)
CurrentApproval ==
  IF status \in Publishable /\ approvals # <<>> /\ approvals[Len(approvals)] = version
    THEN Len(approvals) ELSE 0

(* publishIdempotencyKey of a variant of the content approved by a. *)
KeyOf(p, a) ==
  [platform |-> p, version |-> approvals[a], at |-> IF Mode = "schedule" THEN 0 ELSE a]

(* deriveContentPublicationStatus of the statuses S of all jobs. *)
Derived(S) ==
  IF S \subseteq {"published"} THEN "PUBLISHED"
  ELSE IF S \cap {"published", "publishing"} # {} THEN "PUBLISHING"
  ELSE IF S \cap {"retrying", "reconcile_required"} # {} THEN "RETRYING"
  ELSE IF "failed" \in S /\ S \subseteq {"failed", "scheduled"} THEN "FAILED"
  ELSE IF Mode = "schedule" THEN "SCHEDULED" ELSE "PUBLISHING"

Enqueue(kind, k) ==
  LET t == [kind |-> kind, key |-> k, attempts |-> 0]
  IN queue' = [queue EXCEPT ![t] = @ + 1]
Room == \A t \in Task : queue[t] < MaxQueue

-----------------------------------------------------------------------------
(* Review: the schedule proposal, the request and the owner's decision.    *)

(* createVariants and the like: new content, status untouched. *)
Edit(v) ==
  /\ edits < MaxEdits /\ v # version
  /\ version' = v /\ edits' = edits + 1
  /\ UNCHANGED <<status, pending, approvals, editor, reviews, verdict, revived, job, queue,
                 post, worker, client, historyVars, calls, faults>>

(* proposeSchedule and clearSchedule read the status first ... *)
Propose ==
  /\ editor = Idle /\ edits < MaxEdits
  /\ editor' = [pc |-> "propose", approved |-> status = "APPROVED"]
  /\ edits' = edits + 1
  /\ UNCHANGED <<status, version, pending, approvals, reviews, verdict, revived, job, queue,
                 post, worker, client, historyVars, calls, faults>>

(* ... and write the proposal, which invalidates the approval seen.  The   *)
(* proposal may be the one the content already had.                        *)
SaveProposal(v) ==
  /\ editor.pc = "propose"
  /\ version' = v /\ editor' = Idle
  /\ status' = IF editor.approved THEN "READY_FOR_REVIEW" ELSE status
  /\ UNCHANGED <<pending, approvals, reviews, edits, verdict, revived, job, queue,
                 post, worker, client, historyVars, calls, faults>>

(* requestApproval reads the snapshot of content that is ready ... *)
Request ==
  /\ editor = Idle /\ reviews < MaxReviews
  /\ status \in {"READY_FOR_REVIEW", "PENDING_APPROVAL"}
  /\ editor' = [pc |-> "request", version |-> version]
  /\ reviews' = reviews + 1
  /\ UNCHANGED <<status, version, pending, approvals, edits, verdict, revived, job, queue,
                 post, worker, client, historyVars, calls, faults>>

(* ... and stores it for the owner. *)
SavePending ==
  /\ editor.pc = "request"
  /\ pending' = editor.version /\ status' = "PENDING_APPROVAL" /\ editor' = Idle
  /\ UNCHANGED <<version, approvals, reviews, edits, verdict, revived, job, queue,
                 post, worker, client, historyVars, calls, faults>>

(* approveContent and rejectContent.  finalize_content_decision is not in  *)
(* the repository: it records the decision and its status in one step, for *)
(* content that is pending as PENDING_APPROVAL -> ... of status.ts says.   *)
Decide(approve) ==
  /\ status = "PENDING_APPROVAL" /\ pending = version
  /\ approve => Len(approvals) < MaxApprovals
  /\ approvals' = IF approve THEN Append(approvals, version) ELSE approvals
  /\ status' = IF approve THEN "APPROVED" ELSE "REJECTED"
  /\ verdict' = IF approve THEN "approved" ELSE "rejected"
  /\ UNCHANGED <<version, pending, editor, reviews, edits, revived, job, queue,
                 post, worker, client, historyVars, calls, faults>>

-----------------------------------------------------------------------------
(* API calls: createPublishJobs and retryPublishJob.                       *)

ClientGoesOn(c, r) == client' = [client EXCEPT ![c] = r]

(* createPublishJobs: the guard. *)
StartCreate(c) ==
  /\ client[c] = Idle /\ CurrentApproval # 0
  /\ calls < MaxCalls /\ calls' = calls + 1
  /\ ClientGoesOn(c, [pc |-> "ensure", approval |-> CurrentApproval,
                      todo |-> {KeyOf(p, CurrentApproval) : p \in Platform}, created |-> {}])
  /\ UNCHANGED <<reviewVars, status, revived, job, queue, post, worker, historyVars, faults>>

(* ensurePublishJob: insert, or find the row of the same key. *)
EnsureJob(c, k) ==
  /\ client[c].pc = "ensure" /\ k \in client[c].todo
  /\ LET new == job[k].status = "absent"
         rest == client[c].todo \ {k}
     IN /\ job' = IF new THEN [job EXCEPT ![k] = [status |-> "queued", ref |-> FALSE,
                                                  approval |-> client[c].approval]]
                         ELSE job
        /\ ClientGoesOn(c, [client[c] EXCEPT
             !.todo = rest, !.created = IF new THEN @ \cup {k} ELSE @,
             !.pc = IF rest = {} THEN "enter" ELSE "ensure"])
  /\ UNCHANGED <<reviewVars, status, revived, queue, post, worker, historyVars, calls, faults>>

(* The statuses a repeated call may find instead of APPROVED. *)
Entered == {"PUBLISHING", "RETRYING", "FAILED", "PUBLISHED"}
           \cup IF Mode = "schedule" THEN {"SCHEDULED"} ELSE {}

(* markContentPublicationState: APPROVED -> the state of the mode, or      *)
(* nothing when it is there already, or else an error ends the call.       *)
EnterPublication(c) ==
  /\ client[c].pc = "enter"
  /\ status' = IF status # "APPROVED" THEN status
               ELSE IF Mode = "schedule" THEN "SCHEDULED" ELSE "PUBLISHING"
  /\ IF status \in {"APPROVED"} \cup Entered
       THEN /\ ClientGoesOn(c, IF client[c].created = {} THEN Idle
                               ELSE [client[c] EXCEPT !.pc = "enqueue"])
            /\ UNCHANGED abandoned
       ELSE ClientGoesOn(c, Idle) /\ abandoned' = abandoned \cup client[c].created
  /\ UNCHANGED <<reviewVars, revived, job, queue, post, worker, credit, calls, faults>>

(* enqueuePublishJob for a job this call created, or retries. *)
EnqueueExecute(c, k) ==
  /\ client[c].pc = "enqueue" /\ k \in client[c].created
  /\ Room /\ Enqueue("execute", k)
  /\ ClientGoesOn(c, IF client[c].created = {k} THEN Idle
                     ELSE [client[c] EXCEPT !.created = @ \ {k}])
  /\ UNCHANGED <<reviewVars, status, revived, job, post, worker, historyVars, calls, faults>>

(* retryPublishJob: a failed job, under the approval that is current. *)
StartRetry(c, k) ==
  /\ client[c] = Idle /\ calls < MaxCalls /\ calls' = calls + 1
  /\ job[k].status = "failed" /\ job[k].approval = CurrentApproval
  /\ ClientGoesOn(c, [pc |-> "mark", approval |-> CurrentApproval, todo |-> {}, created |-> {k}])
  /\ UNCHANGED <<reviewVars, status, revived, job, queue, post, worker, historyVars, faults>>

(* markForRetry: compare-and-set failed -> retrying. *)
MarkForRetry(c, k) ==
  /\ client[c].pc = "mark" /\ client[c].created = {k}
  /\ IF job[k].status = "failed"
       THEN /\ job' = [job EXCEPT ![k].status = "retrying"]
            /\ credit' = [credit EXCEPT ![k] = @ + 1]
            /\ ClientGoesOn(c, [client[c] EXCEPT !.pc = "status"])
       ELSE ClientGoesOn(c, Idle) /\ UNCHANGED <<job, credit>>
  /\ UNCHANGED <<reviewVars, status, revived, queue, post, worker, abandoned, calls, faults>>

(* setContentStatus of a retry. *)
ShowRetrying(c) ==
  /\ client[c].pc = "status"
  /\ SetStatus("RETRYING")
  /\ ClientGoesOn(c, [client[c] EXCEPT !.pc = "enqueue"])
  /\ UNCHANGED <<reviewVars, job, queue, post, worker, historyVars, calls, faults>>

(* The call dies, or one of its statements throws. *)
ClientFails(c) ==
  /\ client[c] # Idle /\ Suffer
  /\ abandoned' = IF client[c].pc = "mark" THEN abandoned
                  ELSE abandoned \cup client[c].created
  /\ ClientGoesOn(c, Idle)
  /\ UNCHANGED <<reviewVars, status, revived, job, queue, post, worker, credit, calls>>

-----------------------------------------------------------------------------
(* Background jobs: runOnce, publishPost and reconcilePublication.         *)

WorkerGoesOn(w, r) == worker' = [worker EXCEPT ![w] = r]

EndsWith_OneMore(w, outcome) ==
  LET t == worker[w].task
      again == outcome = "retry" /\ t.attempts <= MaxAttempts[t.kind]
  IN /\ WorkerGoesOn(w, Idle)
     /\ queue' = IF again THEN [queue EXCEPT ![t] = @ + 1] ELSE queue
     /\ abandoned' = IF outcome = "retry" /\ ~again THEN abandoned \cup {t.key} ELSE abandoned

(* The handler ends; runOnce settles the background job or queues it again. *)
EndsWith(w, outcome) ==
  LET t == worker[w].task
      again == outcome = "retry" /\ t.attempts < MaxAttempts[t.kind]
  IN /\ WorkerGoesOn(w, Idle)
     /\ queue' = IF again THEN [queue EXCEPT ![t] = @ + 1] ELSE queue
     /\ abandoned' = IF outcome = "retry" /\ ~again THEN abandoned \cup {t.key} ELSE abandoned

(* claim_next_background_job (external) and loadContext: where the handler *)
(* goes on.  An execution of a job already handed to the provider only     *)
(* enqueues its reconciliation; a row that has failed does not execute.    *)
NextOf(t) ==
  IF job[t.key].status = "published" THEN "done"
  ELSE IF t.kind = "reconcile" THEN "guard"
  ELSE IF job[t.key].status \in {"scheduled", "publishing", "reconcile_required"} THEN "hand"
  ELSE IF job[t.key].status = "failed" THEN "refuse" ELSE "guard"

Claim(w, t) ==
  /\ worker[w] = Idle /\ queue[t] > 0
  /\ queue' = [queue EXCEPT ![t] = @ - 1]
  /\ WorkerGoesOn(w, [pc |-> NextOf(t), task |-> [t EXCEPT !.attempts = @ + 1],
                      ref |-> job[t.key].ref, guarded |-> FALSE, outcome |-> "ok"])
  /\ UNCHANGED <<reviewVars, status, revived, job, post, client, historyVars, calls, faults>>

(* Nothing to do: published already, or not executable. *)
Finish(w) ==
  /\ worker[w].pc \in {"done", "refuse"}
  /\ EndsWith(w, IF worker[w].pc = "done" THEN "ok" ELSE "terminal")
  /\ UNCHANGED <<reviewVars, status, revived, job, post, client, credit, calls, faults>>

(* The row gets status s; next: hand the job to reconciliation, or end.    *)
(* guarded: an error of these statements is caught by the handler itself.  *)
Writes(w, s, next, outcome, guarded) ==
  WorkerGoesOn(w, [pc |-> "write", task |-> worker[w].task, row |-> s, next |-> next,
                   ref |-> s \in {"scheduled", "published"}, outcome |-> outcome,
                   guarded |-> guarded])

(* requireCurrentApproval.  Without a current approval an execution fails  *)
(* its job, while a reconciliation only throws; under another approval     *)
(* both fail the job.                                                      *)
Guard(w) ==
  LET t == worker[w].task
      current == CurrentApproval
  IN /\ worker[w].pc = "guard"
     /\ \/ /\ current = job[t.key].approval
           /\ WorkerGoesOn(w, [worker[w] EXCEPT !.pc = IF t.kind = "execute" THEN "mark" ELSE "call"])
           /\ UNCHANGED <<queue, abandoned>>
        \/ /\ current = 0 /\ t.kind = "reconcile"
           /\ EndsWith(w, "retry")
        \/ /\ current # job[t.key].approval /\ (current = 0 => t.kind = "execute")
           /\ Writes(w, "failed", "end", "terminal", current # 0 /\ t.kind = "execute")
           /\ UNCHANGED <<queue, abandoned>>
     /\ UNCHANGED <<reviewVars, status, revived, job, post, client, credit, calls, faults>>

(* prepareMedia fails: processing pending or a provider error to retry,    *)
(* which is a cause to execute again, or media that cannot be published.   *)
MediaFails(w, retryable) ==
  /\ worker[w].pc = "mark" /\ Suffer
  /\ IF retryable THEN Writes(w, "retrying", "end", "retry", FALSE)
                  ELSE Writes(w, "failed", "end", "terminal", FALSE)
  /\ credit' = IF retryable THEN [credit EXCEPT ![worker[w].task.key] = @ + 1] ELSE credit
  /\ UNCHANGED <<reviewVars, status, revived, job, queue, post, client, abandoned, calls>>

MarkPublishing_NoFence(w) ==
  LET k == worker[w].task.key
  IN /\ worker[w].pc = "mark"
     /\ job' = [job EXCEPT ![k].status = "publishing"]
     /\ WorkerGoesOn(w, [worker[w] EXCEPT !.pc = "call"])
     /\ UNCHANGED <<queue, abandoned>>
     /\ UNCHANGED <<reviewVars, status, revived, post, client, credit, calls, faults>>

(* The media are prepared and markPublishing moves queued or retrying to   *)
(* publishing; in any other status it throws.                              *)
MarkPublishing(w) ==
  LET k == worker[w].task.key
  IN /\ worker[w].pc = "mark"
     /\ IF job[k].status \in {"queued", "retrying"}
          THEN /\ job' = [job EXCEPT ![k].status = "publishing"]
               /\ WorkerGoesOn(w, [worker[w] EXCEPT !.pc = "call"])
               /\ UNCHANGED <<queue, abandoned>>
          ELSE EndsWith(w, "retry") /\ UNCHANGED job
     /\ UNCHANGED <<reviewVars, status, revived, post, client, credit, calls, faults>>

(* An execution creates the post.  A reconciliation asks for its status if *)
(* the provider's id is known, and else repeats the same creation.         *)
Creates(w) == worker[w].task.kind = "execute" \/ ~worker[w].ref

Called(w) ==
  /\ worker[w].pc = "call"
  /\ UNCHANGED <<reviewVars, status, revived, job, queue, client, abandoned, calls>>

(* An execution that calls the provider uses up a cause; an answer that    *)
(* lets runOnce try again gives it back.                                   *)
Spend(w, cause) ==
  credit' = IF worker[w].task.kind = "reconcile" THEN credit
            ELSE [credit EXCEPT ![worker[w].task.key] = @ - (IF cause THEN 0 ELSE 1)]

(* What the handler makes of a state of the post that it knows. *)
Result(w, known) ==
  \/ known = "scheduled" /\ worker[w].task.kind = "execute" /\ Writes(w, "scheduled", "hand", "ok", TRUE)
  \/ known = "scheduled" /\ worker[w].task.kind = "reconcile" /\ Writes(w, "scheduled", "end", "retry", TRUE)
  \/ known = "published" /\ Writes(w, "published", "end", "ok", TRUE)
  \/ known = "failed" /\ Writes(w, "failed", "end", "terminal", TRUE)

(* The provider answers with the state of the post, or with a state that   *)
(* is none of the known ones.                                              *)
Answered(w) ==
  LET k == worker[w].task.key
      known == IF Creates(w) /\ post[k] = "none" THEN "scheduled" ELSE post[k]
  IN /\ Called(w) /\ Spend(w, FALSE)
     /\ post' = [post EXCEPT ![k] = known]
     /\ \/ Result(w, known) /\ UNCHANGED faults
        \/ /\ Suffer
           /\ IF worker[w].task.kind = "execute"
                THEN Writes(w, "reconcile_required", "hand", "ok", TRUE)
                ELSE Writes(w, "reconcile_required", "end", "retry", TRUE)

TimedOut_NoHandOver(w) == Writes(w, "reconcile_required", "end", "ok", FALSE)

(* timeout or network_error: only reconciliation may repeat the creation. *)
TimedOut(w) ==
  IF worker[w].task.kind = "execute" THEN Writes(w, "reconcile_required", "hand", "ok", FALSE)
                                     ELSE Writes(w, "reconcile_required", "end", "retry", FALSE)

(* rate_limited or upstream_error. *)
Busy(w) ==
  IF worker[w].task.kind = "execute" THEN Writes(w, "retrying", "end", "retry", FALSE)
                                     ELSE Writes(w, "reconcile_required", "end", "retry", FALSE)

(* The call throws, whether or not the provider accepted the post. *)
CallThrows(w, accepted) ==
  LET k == worker[w].task.key
  IN /\ Called(w) /\ Suffer
     /\ post' = IF accepted /\ Creates(w) /\ post[k] = "none"
                  THEN [post EXCEPT ![k] = "scheduled"] ELSE post
     /\ \/ Spend(w, TRUE) /\ Busy(w)
        \/ Spend(w, FALSE) /\ (TimedOut(w) \/ Writes(w, "failed", "end", "terminal", FALSE))

(* markResult, markRetrying, markFailed, markReconcileRequired: the row is *)
(* updated by id, then the statuses of all jobs of the content are read.   *)
WriteRow(w) ==
  LET k == worker[w].task.key
      written == [job EXCEPT ![k].status = worker[w].row, ![k].ref = @ \/ worker[w].ref]
  IN /\ worker[w].pc = "write"
     /\ job' = written
     /\ WorkerGoesOn(w, [pc |-> "put", task |-> worker[w].task, next |-> worker[w].next,
                         outcome |-> worker[w].outcome, guarded |-> worker[w].guarded,
                         derived |-> Derived({written[i].status : i \in Key} \ {"absent"})])
     /\ UNCHANGED <<reviewVars, status, revived, queue, post, client, historyVars, calls, faults>>

(* ... and the status derived from them is written to the content. *)
PutStatus(w) ==
  /\ worker[w].pc = "put"
  /\ SetStatus(worker[w].derived)
  /\ IF worker[w].next = "hand"
       THEN /\ WorkerGoesOn(w, [pc |-> "hand", task |-> worker[w].task,
                                outcome |-> worker[w].outcome, guarded |-> worker[w].guarded])
            /\ UNCHANGED <<queue, abandoned>>
       ELSE EndsWith(w, worker[w].outcome)
  /\ UNCHANGED <<reviewVars, job, post, client, credit, calls, faults>>

(* enqueueReconciliation, the last step of an execution. *)
HandOver(w) ==
  /\ worker[w].pc = "hand" /\ Room
  /\ Enqueue("reconcile", worker[w].task.key)
  /\ WorkerGoesOn(w, Idle)
  /\ UNCHANGED <<reviewVars, status, revived, job, post, client, historyVars, calls, faults>>

(* A statement throws.  Inside the handler's own try the error is not one  *)
(* of the provider's, so the job is marked failed; elsewhere runOnce gets  *)
(* the error and tries the background job again.  The guard of an          *)
(* execution takes any error of its reads for a missing approval.          *)
StatementFails(w) ==
  /\ worker[w].pc \in {"guard", "mark", "write", "put", "hand"} /\ Suffer
  /\ \/ /\ worker[w].guarded
        /\ Writes(w, "failed", "end", "terminal", FALSE) /\ UNCHANGED <<queue, abandoned>>
     \/ ~worker[w].guarded /\ EndsWith(w, "retry")
     \/ /\ worker[w].pc = "guard" /\ worker[w].task.kind = "execute"
        /\ Writes(w, "failed", "end", "terminal", FALSE) /\ UNCHANGED <<queue, abandoned>>
  /\ UNCHANGED <<reviewVars, status, revived, job, post, client, credit, calls>>

(* The process dies; its background job stays running. *)
Crash(w) ==
  /\ worker[w] # Idle /\ Suffer
  /\ abandoned' = abandoned \cup {worker[w].task.key}
  /\ WorkerGoesOn(w, Idle)
  /\ UNCHANGED <<reviewVars, status, revived, job, queue, post, client, credit, calls>>

(* External: the provider publishes a post when its time comes, or fails. *)
ProviderActs(k, s) ==
  /\ post[k] = "scheduled" /\ s \in {"published", "failed"}
  /\ post' = [post EXCEPT ![k] = s]
  /\ UNCHANGED <<reviewVars, status, revived, job, queue, worker, client, historyVars, calls, faults>>

-----------------------------------------------------------------------------
Review ==
  \/ \E v \in Version : Edit(v) \/ SaveProposal(v)
  \/ Propose \/ Request \/ SavePending
  \/ \E approve \in BOOLEAN : Decide(approve)

ClientStep(c) ==
  \/ StartCreate(c) \/ EnterPublication(c) \/ ShowRetrying(c)
  \/ \E k \in Key : EnsureJob(c, k) \/ EnqueueExecute(c, k) \/ StartRetry(c, k) \/ MarkForRetry(c, k)

Handle(w) ==
  \/ Finish(w) \/ Guard(w) \/ MarkPublishing(w) \/ Answered(w)
  \/ WriteRow(w) \/ PutStatus(w) \/ HandOver(w)

Next ==
  \/ Review
  \/ \E c \in Client : ClientStep(c) \/ ClientFails(c)
  \/ \E w \in Worker, t \in Task : Claim(w, t)
  \/ \E w \in Worker : Handle(w) \/ StatementFails(w) \/ Crash(w)
  \/ \E w \in Worker, b \in BOOLEAN : MediaFails(w, b) \/ CallThrows(w, b)
  \/ \E k \in Key, s \in {"published", "failed"} : ProviderActs(k, s)

Spec == Init /\ [][Next]_vars

-----------------------------------------------------------------------------
(* Somebody will still look at the job: a background job that waits or     *)
(* runs, or an API call that is about to enqueue one.                      *)
Watched(k) ==
  \/ \E t \in Task : t.key = k /\ queue[t] > 0
  \/ \E w \in Worker : worker[w] # Idle /\ worker[w].task.key = k
  \/ \E c \in Client : client[c] # Idle /\ k \in client[c].created

(* No publication is left half-way without somebody who will look at it:   *)
(* unless a process died with it, the content left publication between the *)
(* insert and the enqueue, or its background job ran out of attempts.      *)
NothingStranded ==
  \A k \in Key :
    job[k].status \in {"queued", "retrying", "publishing", "scheduled", "reconcile_required"}
      => Watched(k) \/ k \in abandoned

(* "moves timeout to reconciliation without blind replay": an execution    *)
(* calls the provider again only after an answer that says it was busy,    *)
(* media that were not ready, or a retry the owner asked for; never only   *)
(* because an answer was lost, a statement failed, or two executions of    *)
(* one job overlap.                                                        *)
NoBlindReplay == \A k \in Key : credit[k] >= 0

(* "never revives an old approval": an approval counts after the owner     *)
(* rejected the content only if a status write of publication, made from   *)
(* what it read before, went over the review status.                       *)
RejectionStands == verdict = "rejected" /\ CurrentApproval # 0 => revived
=============================================================================
