------------------------------ MODULE Outbound ------------------------------
(***************************************************************************)
(* From a turn's decision to say something to the message on the contact's *)
(* phone: the before_send chain (lib/agent-engine/guardrails/              *)
(* before-send.ts) under the lock of the number, the send ledger           *)
(* (edge/crm/send-message.ts), the handler every channel of the CRM sends  *)
(* with (app/api/v1/messages/_handler.ts) and the watchdog that sends what *)
(* stayed queued (edge/crm/session-reconciler.ts).                         *)
(*                                                                         *)
(* One number: numbers share neither lock, session nor cap.  An intent is  *)
(* a (job_id, seq) of the ledger; each has a contact of its own, since     *)
(* contacts only matter through is_blocked.  Contacts that are exempt from *)
(* pacing are left out, and the gates that judge the body are an attempt   *)
(* that stops before it changes anything.                                  *)
(***************************************************************************)
EXTENDS Naturals, Sequences, FiniteSets

CONSTANTS
  Intent,       \* messages turns want to send
  Media,        \* messages without a text that MCP tools send
  Worker,       \* processes that run turns
  Redriver,     \* processes that run the watchdog
  None,
  MaxKeys,      \* bound: rotations of an intent's idempotency key
  Cap,          \* messages the number may send today
  BatchSize,    \* WATCHDOG_REDRIVE_BATCH_SIZE
  MaxMishaps,   \* bound: processes that die, statements that fail, calls to WAHA
                \* that deliver but look failed, sends slower than the age limit
  MaxOutages    \* bound: times the session goes down or WAHA refuses a message

ASSUME SetsAssumption ==
  /\ IsFiniteSet(Intent) /\ Intent \cap Media = {}
  /\ None \notin Intent \cup Worker
ASSUME SizesAssumption ==
  /\ MaxKeys \in Nat \ {0} /\ BatchSize \in Nat \ {0} /\ Cap \in Nat
  /\ MaxMishaps \in Nat /\ MaxOutages \in Nat

VARIABLES
  ledger,     \* send_ledger.status of each intent
  key,        \* how often its id was rotated: the idempotency key
  message,    \* outbound messages of the agent, by created_at
  young,      \* messages younger than WATCHDOG_REDRIVE_MIN_AGE_MS
  delivered,  \* messages on the contact's phone, per intent
  counted,    \* pacing_ledger rows of today: an intent and which of its rows
  blocked,    \* intents whose contact has opted out
  mirror,     \* channel_sessions.status is WORKING
  up,         \* the session really works
  lock,       \* the worker that holds the number's advisory lock
  pc, intent, row, got, \* the attempt of each worker
  rpc, batch, \* the tick of each redriver
  faults

ledgerVars == <<ledger, key>>
worldVars == <<delivered, counted, blocked, mirror, up>>
attemptVars == <<pc, intent, row, got>>
tickVars == <<rpc, batch>>
vars == <<ledgerVars, message, young, worldVars, lock, attemptVars, tickVars, faults>>

Fault == {"mishap", "outage"}
Bound(f) == IF f = "mishap" THEN MaxMishaps ELSE MaxOutages

(* A fault of kind f happens, if the bound allows one more. *)
Suffer(f) == faults[f] < Bound(f) /\ faults' = [faults EXCEPT ![f] = @ + 1]

RowStatus == {"queued", "sent", "failed"}
Row == [intent : Intent \cup Media, key : Nat, status : RowStatus]

(* sent_today. *)
SentToday == Cardinality(counted)

TypeOK ==
  /\ ledger \in [Intent -> {"none", "requested", "accepted", "queued", "vetoed", "failed"}]
  /\ key \in [Intent -> 1..MaxKeys]
  /\ message \in Seq(Row)
  /\ young \subseteq DOMAIN message
  /\ delivered \in [Intent \cup Media -> Nat]
  /\ counted \subseteq Intent \X Nat /\ IsFiniteSet(counted)
  /\ blocked \subseteq Intent \cup Media
  /\ mirror \in BOOLEAN /\ up \in BOOLEAN
  /\ lock \in Worker \cup {None}
  /\ pc \in [Worker -> {"idle", "claim", "lookup", "read", "insert", "post",
                        "store", "settle", "commit"}]
  /\ intent \in [Worker -> Intent \cup {None}]
  /\ row \in [Worker -> Nat]
  /\ got \in [Worker -> {"none", "vetoed"} \cup RowStatus]
  /\ rpc \in [Redriver -> {"idle", "post", "store"}]
  /\ batch \in [Redriver -> SUBSET Nat]
  /\ faults \in [Fault -> Nat] /\ \A f \in Fault : faults[f] <= Bound(f)
  /\ \A w \in Worker : pc[w] # "idle" <=> intent[w] # None

Init ==
  /\ ledger = [i \in Intent |-> "none"] /\ key = [i \in Intent |-> 1]
  /\ message = <<>> /\ young = {}
  /\ delivered = [i \in Intent \cup Media |-> 0] /\ counted = {}
  /\ blocked = {} /\ mirror = TRUE /\ up = TRUE
  /\ lock = None
  /\ pc = [w \in Worker |-> "idle"] /\ intent = [w \in Worker |-> None]
  /\ row = [w \in Worker |-> 0] /\ got = [w \in Worker |-> "none"]
  /\ rpc = [r \in Redriver |-> "idle"] /\ batch = [r \in Redriver |-> {}]
  /\ faults = [f \in Fault |-> 0]

-----------------------------------------------------------------------------
(* The attempt of a turn, under the lock. *)
Goto(w, label) == pc' = [pc EXCEPT ![w] = label]
Got(w, status) == got' = [got EXCEPT ![w] = status]

(* The transaction of runBeforeSend ends: the lock is free. *)
Release(w) ==
  /\ lock' = None
  /\ pc' = [pc EXCEPT ![w] = "idle"]
  /\ intent' = [intent EXCEPT ![w] = None]
  /\ row' = [row EXCEPT ![w] = 0] /\ got' = [got EXCEPT ![w] = "none"]

Begin_NoLock(w, i) ==
  /\ pc[w] = "idle"
  /\ i \notin blocked /\ SentToday < Cap
  /\ lock' = w
  /\ Goto(w, "claim")
  /\ intent' = [intent EXCEPT ![w] = i]
  /\ UNCHANGED <<ledgerVars, message, young, worldVars, row, got, tickVars, faults>>

(* begin, advisory lock, gates: stop flags and cap are read under the lock. *)
(* A retried job attempts an intent again, whatever became of it.           *)
Begin(w, i) ==
  /\ pc[w] = "idle" /\ lock = None
  /\ i \notin blocked /\ SentToday < Cap
  /\ lock' = w
  /\ Goto(w, "claim")
  /\ intent' = [intent EXCEPT ![w] = i]
  /\ UNCHANGED <<ledgerVars, message, young, worldVars, row, got, tickVars, faults>>

(* claimLedgerRow. *)
Claim(w) ==
  LET i == intent[w]
      new == /\ ledger' = [ledger EXCEPT ![i] = "requested"]
             /\ Goto(w, "read")
             /\ UNCHANGED <<row, got, intent, lock>>
  IN /\ pc[w] = "claim"
     /\ \/ ledger[i] = "none" /\ new /\ UNCHANGED key
        \/ ledger[i] = "failed" /\ key[i] < MaxKeys /\ new /\ key' = [key EXCEPT ![i] = @ + 1]
        \/ /\ ledger[i] = "requested"
           /\ Goto(w, "lookup")
           /\ UNCHANGED <<ledgerVars, row, got, intent, lock>>
        \/ ledger[i] \in {"accepted", "queued", "vetoed"} /\ Release(w) /\ UNCHANGED ledgerVars
        \/ ledger[i] = "failed" /\ key[i] = MaxKeys /\ Release(w) /\ UNCHANGED ledgerVars
     /\ UNCHANGED <<message, young, worldVars, tickVars, faults>>

Lookup_Skipped(w) ==
  /\ pc[w] = "lookup"
  /\ Goto(w, "read")
  /\ UNCHANGED <<ledgerVars, message, young, worldVars, lock, intent, row, got, tickVars, faults>>

(* Replay of a requested intent: the message may have been stored. *)
Lookup(w) ==
  LET found == {n \in DOMAIN message : message[n].intent = intent[w]
                                         /\ message[n].key = key[intent[w]]}
  IN /\ pc[w] = "lookup"
     /\ IF found = {} THEN Goto(w, "read") /\ UNCHANGED got
          ELSE \E n \in found : Got(w, message[n].status) /\ Goto(w, "settle")
     /\ UNCHANGED <<ledgerVars, message, young, worldVars, lock, intent, row, tickVars, faults>>

(* The handler reads the conversation: is_blocked and the session's status. *)
HandlerReads(w) ==
  /\ pc[w] = "read"
  /\ IF intent[w] \in blocked THEN Got(w, "vetoed") /\ Goto(w, "settle")
       ELSE Got(w, IF mirror THEN "sent" ELSE "queued") /\ Goto(w, "insert")
  /\ UNCHANGED <<ledgerVars, message, young, worldVars, lock, intent, row, tickVars, faults>>

InsertRow(i, k) ==
  /\ message' = Append(message, [intent |-> i, key |-> k, status |-> "queued"])
  /\ young' = young \cup {Len(message) + 1}

(* It inserts the message as queued; without a working session that is all. *)
HandlerInserts(w) ==
  /\ pc[w] = "insert"
  /\ InsertRow(intent[w], key[intent[w]])
  /\ row' = [row EXCEPT ![w] = Len(message) + 1]
  /\ Goto(w, IF got[w] = "sent" THEN "post" ELSE "settle")
  /\ UNCHANGED <<ledgerVars, worldVars, lock, intent, got, tickVars, faults>>

(* adapter.send of a working session, or of one that only looks working.   *)
(* Archived channels and missing phone numbers end like a refusal.         *)
HandlerPosts(w) ==
  LET i == intent[w]
      arrives == up /\ delivered' = [delivered EXCEPT ![i] = @ + 1]
  IN /\ pc[w] = "post"
     /\ Goto(w, "store")
     /\ \/ arrives /\ Got(w, "sent") /\ UNCHANGED faults
        \/ arrives /\ Got(w, "failed") /\ Suffer("mishap")
        \/ up /\ Got(w, "failed") /\ Suffer("outage") /\ UNCHANGED delivered
        \/ ~up /\ Got(w, "failed") /\ UNCHANGED <<delivered, faults>>
     /\ UNCHANGED <<ledgerVars, message, young, counted, blocked, mirror, up, lock,
                    intent, row, tickVars>>

(* The update of the message; if it fails the handler goes on with the row *)
(* it inserted, which is still queued.                                     *)
HandlerStores(w) ==
  /\ pc[w] = "store"
  /\ Goto(w, "settle")
  /\ \/ message' = [message EXCEPT ![row[w]].status = got[w]] /\ UNCHANGED <<got, faults>>
     \/ Suffer("mishap") /\ Got(w, "queued") /\ UNCHANGED message
  /\ UNCHANGED <<ledgerVars, young, worldVars, lock, intent, row, tickVars>>

Settle_Unmapped(w) ==
  /\ pc[w] = "settle"
  /\ ledger' = [ledger EXCEPT ![intent[w]] = got[w]]
  /\ Goto(w, "commit")
  /\ UNCHANGED <<key, message, young, worldVars, lock, intent, row, got, tickVars, faults>>

(* reconcile, or the catch of a 403: the ledger learns the outcome. *)
Settle(w) ==
  /\ pc[w] = "settle"
  /\ ledger' = [ledger EXCEPT ![intent[w]] = IF got[w] = "sent" THEN "accepted" ELSE got[w]]
  /\ Goto(w, "commit")
  /\ UNCHANGED <<key, message, young, worldVars, lock, intent, row, got, tickVars, faults>>

(* recordSend, only for a message that was sent, and commit. *)
Commit(w) ==
  /\ pc[w] = "commit"
  /\ counted' = IF got[w] # "sent" THEN counted
                ELSE counted \cup {<<intent[w], Cardinality({x \in counted : x[1] = intent[w]})>>}
  /\ Release(w)
  /\ UNCHANGED <<ledgerVars, message, young, delivered, blocked, mirror, up, tickVars, faults>>

(* A statement throws: the transaction rolls back, the job is retried.  An *)
(* insert whose answer is lost leaves its row.                             *)
AttemptFails(w) ==
  /\ pc[w] \in {"claim", "lookup", "read", "insert", "settle", "commit"}
  /\ Suffer("mishap")
  /\ Release(w)
  /\ \/ UNCHANGED <<message, young>>
     \/ pc[w] = "insert" /\ InsertRow(intent[w], key[intent[w]])
  /\ UNCHANGED <<ledgerVars, worldVars, tickVars>>

(* The process dies: its connection closes and the lock is free. *)
WorkerCrashes(w) ==
  /\ pc[w] # "idle"
  /\ Suffer("mishap")
  /\ Release(w)
  /\ UNCHANGED <<ledgerVars, message, young, worldVars, tickVars>>

-----------------------------------------------------------------------------
(* The watchdog. *)

Reconcile_Lost ==
  /\ mirror /\ ~up
  /\ mirror' = FALSE
  /\ UNCHANGED <<ledgerVars, message, young, delivered, counted, blocked, up, lock,
                 attemptVars, tickVars, faults>>

(* reconcileSessions, or the session.status webhook when it is not lost. *)
Reconcile ==
  /\ mirror # up
  /\ mirror' = up
  /\ UNCHANGED <<ledgerVars, message, young, delivered, counted, blocked, up, lock,
                 attemptVars, tickVars, faults>>

Redrivable_AnyAge == {n \in DOMAIN message : /\ message[n].status = "queued"
                                              /\ message[n].intent \notin blocked
                                              /\ mirror}

(* What the watchdog's query finds. *)
Redrivable == {n \in DOMAIN message \ young : /\ message[n].status = "queued"
                                              /\ message[n].intent \notin blocked
                                              /\ mirror}

(* redriveQueued: the oldest ones, at most BatchSize. *)
Select(r) ==
  /\ rpc[r] = "idle" /\ Redrivable # {}
  /\ rpc' = [rpc EXCEPT ![r] = "post"]
  /\ batch' = [batch EXCEPT ![r] =
       {n \in Redrivable : Cardinality({m \in Redrivable : m < n}) < BatchSize}]
  /\ UNCHANGED <<ledgerVars, message, young, worldVars, lock, attemptVars, faults>>

(* n is the message the tick has come to. *)
At(r, n) == n \in batch[r] /\ \A m \in batch[r] : n <= m

NextOfBatch(r, n) ==
  /\ batch' = [batch EXCEPT ![r] = @ \ {n}]
  /\ rpc' = [rpc EXCEPT ![r] = IF batch[r] = {n} THEN "idle" ELSE "post"]

(* sendText of WAHA for the next message; one without a text is skipped. *)
RedriverPosts(r, n) ==
  LET i == message[n].intent
      arrives == up /\ i \notin Media /\ delivered' = [delivered EXCEPT ![i] = @ + 1]
  IN /\ rpc[r] = "post" /\ At(r, n)
     /\ \/ arrives /\ rpc' = [rpc EXCEPT ![r] = "store"] /\ UNCHANGED <<batch, faults>>
        \/ arrives /\ Suffer("mishap") /\ NextOfBatch(r, n)
        \/ i \notin Media /\ up /\ Suffer("outage") /\ NextOfBatch(r, n) /\ UNCHANGED delivered
        \/ (i \in Media \/ ~up) /\ NextOfBatch(r, n) /\ UNCHANGED <<delivered, faults>>
     /\ UNCHANGED <<ledgerVars, message, young, counted, blocked, mirror, up, lock, attemptVars>>

(* sent, where status = 'queued'; if the update fails the row stays queued. *)
RedriverStores(r, n) ==
  /\ rpc[r] = "store" /\ At(r, n)
  /\ NextOfBatch(r, n)
  /\ \/ /\ message' = IF message[n].status = "queued"
                        THEN [message EXCEPT ![n].status = "sent"] ELSE message
        /\ UNCHANGED faults
     \/ Suffer("mishap") /\ UNCHANGED message
  /\ UNCHANGED <<ledgerVars, young, worldVars, lock, attemptVars>>

RedriverCrashes(r) ==
  /\ rpc[r] # "idle"
  /\ Suffer("mishap")
  /\ rpc' = [rpc EXCEPT ![r] = "idle"] /\ batch' = [batch EXCEPT ![r] = {}]
  /\ UNCHANGED <<ledgerVars, message, young, worldVars, lock, attemptVars>>

-----------------------------------------------------------------------------
(* The world. *)
OptOut(i) ==
  /\ i \notin blocked
  /\ blocked' = blocked \cup {i}
  /\ UNCHANGED <<ledgerVars, message, young, delivered, counted, mirror, up, lock,
                 attemptVars, tickVars, faults>>

SessionChanges ==
  /\ IF up THEN Suffer("outage") ELSE UNCHANGED faults
  /\ up' = ~up
  /\ UNCHANGED <<ledgerVars, message, young, delivered, counted, blocked, mirror, lock,
                 attemptVars, tickVars>>

(* The message gets old enough for the redriver, possibly in the middle of *)
(* the call that sends it: adapter.send has no timeout.                    *)
Ages(n) ==
  /\ n \in young
  /\ IF \E w \in Worker : row[w] = n /\ pc[w] \in {"post", "store"}
       THEN Suffer("mishap") ELSE UNCHANGED faults
  /\ young' = young \ {n}
  /\ UNCHANGED <<ledgerVars, message, worldVars, lock, attemptVars, tickVars>>

(* The MCP tool sends a media without a text while the session is down. *)
QueueMedia(x) ==
  /\ ~mirror /\ \A n \in DOMAIN message : message[n].intent # x
  /\ InsertRow(x, 1)
  /\ UNCHANGED <<ledgerVars, worldVars, lock, attemptVars, tickVars, faults>>

-----------------------------------------------------------------------------
AttemptStep(w) ==
  \/ Claim(w) \/ Lookup(w) \/ HandlerReads(w) \/ HandlerInserts(w)
  \/ HandlerPosts(w) \/ HandlerStores(w) \/ Settle(w) \/ Commit(w)

RedriveStep(r) == Select(r) \/ \E n \in batch[r] : RedriverPosts(r, n) \/ RedriverStores(r, n)

Next ==
  \/ \E w \in Worker, i \in Intent : Begin(w, i)
  \/ \E w \in Worker : AttemptStep(w) \/ AttemptFails(w) \/ WorkerCrashes(w)
  \/ Reconcile
  \/ \E r \in Redriver : RedriveStep(r) \/ RedriverCrashes(r)
  \/ \E i \in Intent \cup Media : OptOut(i)
  \/ SessionChanges
  \/ \E n \in young : Ages(n)
  \/ \E x \in Media : QueueMedia(x)

Spec == Init /\ [][Next]_vars

(* Attempts go on, the watchdog ticks, messages age, sessions come back. *)
Fairness ==
  /\ \A w \in Worker : WF_vars(AttemptStep(w))
  /\ \A r \in Redriver : WF_vars(RedriveStep(r))
  /\ WF_vars(Reconcile)
  /\ WF_vars(~up /\ SessionChanges)
  /\ WF_vars(\E n \in young : Ages(n))

FairSpec == Spec /\ Fairness

-----------------------------------------------------------------------------
(* Every delivery of a message after its first one. *)
Duplicates == UNION {{i} \X (2..delivered[i]) : i \in Intent \cup Media}

(* "nunca duplicadas" (session-reconciler.ts), for as long as nothing goes *)
(* wrong: every message a contact gets twice is paid for by a crash, a     *)
(* failed update, a timed out call or a send slower than the age limit.    *)
DuplicatesHaveACause == Cardinality(Duplicates) <= faults["mishap"]

(* What the ledger says is what became of the message: an accepted intent  *)
(* was sent, a queued one is in the custody of the CRM, a failed one is    *)
(* known to be failed before its key rotates, and a vetoed one has no      *)
(* message that could still leave.                                         *)
LedgerIsHonest ==
  \A i \in Intent :
    LET mine(k) == {message[n].status : n \in {m \in DOMAIN message :
                                  message[m].intent = i /\ message[m].key = k}}
    IN /\ ledger[i] = "none" => mine(1) = {}
       /\ ledger[i] = "accepted" => mine(key[i]) = {"sent"}
       /\ ledger[i] = "queued" => mine(key[i]) # {} /\ "failed" \notin mine(key[i])
       /\ ledger[i] = "failed" => mine(key[i]) = {"failed"}
       /\ ledger[i] = "vetoed" => i \in blocked /\ mine(key[i]) = {}
       /\ \A k \in 1..(key[i] - 1) : mine(k) = {"failed"}

(* "Dois workers no MESMO numero nao leem cap-1 ambos e estouram o cap em  *)
(* 1" (before-send.ts), and no send is counted twice.                      *)
CapHolds == SentToday <= Cap /\ \A x, y \in counted : x[1] = y[1] => x = y

(* A message of i waits behind a whole batch of messages without a text:   *)
(* each tick selects those and skips them, so they stay ahead of it.       *)
Starved(i) ==
  \E n \in DOMAIN message :
    /\ message[n].intent = i /\ message[n].status = "queued"
    /\ Cardinality({m \in 1..n - 1 : /\ message[m].intent \in Media \ blocked
                                     /\ message[m].status = "queued"}) >= BatchSize

(* "nunca dropadas" (session-reconciler.ts) promises that every queued     *)
(* message leaves.  The code keeps less: the message leaves unless its     *)
(* contact opts out, or the oldest rows of the batch have no text and keep *)
(* it from ever being selected, which happens.                             *)
NeverDropped ==
  \A i \in Intent :
    (ledger[i] = "queued") ~> (delivered[i] > 0 \/ i \in blocked \/ Starved(i))
=============================================================================
