--------------------------- MODULE JobQueueProofs ---------------------------
(***************************************************************************)
(* Machine-checked safety of JobQueue for every set of jobs, contacts,     *)
(* events and workers and every value of the bounds.                       *)
(***************************************************************************)
EXTENDS JobQueue, FiniteSetTheorems, TLAPS

(* A row that may still be claimed has attempts left, and a row that was   *)
(* never inserted has none: why the claim's increment stays in bounds.     *)
AttemptsLeft ==
  \A j \in Job : status[j] \in {"absent", "pending"} => attempts[j] < MaxAttempts

(* The inductive invariant. *)
IInv ==
  /\ TypeOK
  /\ AttemptsLeft
  /\ LeaseConsistent
  /\ LaneExclusive
  /\ DeadIsAlerted
  /\ OneJobPerEvent

USE NoneAssumption, MaxAttemptsAssumption, MaxConcurrencyAssumption, BoundsAssumption

LEMMA InitIInv == Init => IInv
  BY DEF Init, IInv, TypeOK, AttemptsLeft, LeaseConsistent, LockedIffRunning,
         LiveRunHoldsLease, DownRunsNothing, LaneExclusive,
         DeadIsAlerted, OneJobPerEvent, Status, Terminal, Running, RunKind

(* A run that is in flight is counted. *)
LEMMA InFlightCounts ==
  ASSUME TypeOK, NEW w \in Worker, NEW j \in Job, NEW k \in RunKind, InFlight(w, j, k)
  PROVE  RunsIn(w, j) \in Nat \ {0}
  BY DEF TypeOK, InFlight, RunsIn, RunKind

LEMMA RunsInNat ==
  ASSUME TypeOK, NEW w \in Worker, NEW j \in Job
  PROVE  RunsIn(w, j) \in Nat
  BY DEF TypeOK, RunsIn

LEMMA EndRunTyped ==
  ASSUME TypeOK, NEW w \in Worker, NEW j \in Job, NEW k \in RunKind,
         InFlight(w, j, k), EndRunReleasing(w, j)
  PROVE  /\ live' \subseteq Job
         /\ staleRuns' \in [Job -> [Worker -> Nat]]
  <1>1. RunsIn(w, j) - 1 \in Nat
    BY InFlightCounts
  <1>2. [staleRuns[j] EXCEPT ![w] = RunsIn(w, j) - 1] \in [Worker -> Nat]
    BY <1>1 DEF TypeOK
  <1>3. staleRuns' = [staleRuns EXCEPT ![j] = [staleRuns[j] EXCEPT ![w] = RunsIn(w, j) - 1]]
    BY DEF EndRunReleasing, TypeOK
  <1> QED
    BY <1>2, <1>3 DEF TypeOK, EndRunReleasing

LEMMA TypePreserved == IInv /\ [Next]_vars => TypeOK'
  <1> SUFFICES ASSUME IInv, [Next]_vars PROVE TypeOK'
    OBVIOUS
  <1> USE DEF IInv, history, Settles
  <1>1. ASSUME NEW j \in Job, NEW c \in Contact \cup {None},
               NEW e \in Event \cup {None}, NEW now \in BOOLEAN, Enqueue(j, c, e, now)
        PROVE  TypeOK'
    BY <1>1 DEF Enqueue, TypeOK, Status, runVars
  <1>2. ASSUME NEW w \in Worker, NEW S \in SUBSET Job, NEW received \in BOOLEAN,
               Claim(w, S, received)
        PROVE  TypeOK'
    <2>1. \A j \in S : attempts[j] < MaxAttempts
      BY <1>2 DEF Claim, Claimable, AttemptsLeft
    <2> QED
      BY <1>2, <2>1 DEF Claim, TypeOK, Status
  <1>3. ASSUME NEW w \in Worker, NEW j \in Job, NEW k \in RunKind, RunCompletes(w, j, k)
        PROVE  TypeOK'
    BY <1>3, EndRunTyped
       DEF RunCompletes, ReleaseRow, TypeOK, Status, Terminal
  <1>4. ASSUME NEW w \in Worker, NEW j \in Job, NEW k \in RunKind, RunFails(w, j, k)
        PROVE  TypeOK'
    BY <1>4, EndRunTyped
       DEF RunFails, ReleaseRow, GivenBack, TypeOK, Status, Terminal
  <1>5. ASSUME NEW w \in Worker, NEW j \in Job, NEW k \in RunKind, RunCancels(w, j, k)
        PROVE  TypeOK'
    BY <1>5, EndRunTyped
       DEF RunCancels, ReleaseRow, TypeOK, Status, Terminal
  <1>6. ASSUME NEW w \in Worker, NEW j \in Job, NEW k \in RunKind, RunReschedules(w, j, k)
        PROVE  TypeOK'
    BY <1>6, EndRunTyped
       DEF RunReschedules, ReleaseRow, TypeOK, Status
  <1>7. ASSUME NEW w \in Worker, NEW j \in Job, NEW k \in RunKind, RunEndsSilently(w, j, k)
        PROVE  TypeOK'
    <2>1. CASE k = "live"
      BY <1>7, <2>1 DEF RunEndsSilently, TypeOK, rowVars
    <2>2. CASE k = "stale"
      <3>1. [staleRuns[j] EXCEPT ![w] = @ - 1] \in [Worker -> Nat]
        BY <1>7, <2>2 DEF RunEndsSilently, InFlight, TypeOK
      <3>2. staleRuns' = [staleRuns EXCEPT ![j] = [staleRuns[j] EXCEPT ![w] = @ - 1]]
        BY <1>7, <2>2 DEF RunEndsSilently, TypeOK
      <3>3. staleRuns' \in [Job -> [Worker -> Nat]]
        BY <3>1, <3>2 DEF TypeOK
      <3> QED
        BY <1>7, <2>2, <3>3 DEF RunEndsSilently, TypeOK, rowVars
    <2> QED
      BY <2>1, <2>2 DEF RunKind
  <1>8. ASSUME NEW R \in SUBSET Job, GiveBackAll(R), UNCHANGED stops,
               process' \in [Worker -> {"up", "draining", "down"}]
        PROVE  TypeOK'
    BY <1>8, RunsInNat DEF GiveBackAll, GivenBack, TypeOK, Status, Terminal
  <1>9. ASSUME NEW w \in Worker, Reap(w) \/ Boot(w)
        PROVE  TypeOK'
    BY <1>8, <1>9 DEF Reap, Boot, ReapExpired, Running, TypeOK
  <1>10. ASSUME NEW w \in Worker, BeginShutdown(w)
         PROVE  TypeOK'
    BY <1>10 DEF BeginShutdown, TypeOK, rowVars, runVars
  <1>11. ASSUME NEW w \in Worker, Exit(w) \/ Crash(w)
         PROVE  TypeOK'
    <2>1. \A j \in Job : [staleRuns[j] EXCEPT ![w] = 0] \in [Worker -> Nat]
      BY DEF TypeOK
    <2>2. staleRuns' \in [Job -> [Worker -> Nat]]
      BY <1>11, <2>1 DEF Exit, Crash, Dies
    <2>3. process' \in [Worker -> {"up", "draining", "down"}]
      BY <1>11 DEF Exit, Crash, Dies, TypeOK
    <2>4. live' \subseteq Job
      BY <1>11 DEF Exit, Crash, Dies, TypeOK
    <2>5. stops' \in 0..MaxStops
      BY <1>11 DEF Exit, Crash, Dies, TypeOK
    <2> QED
      BY <1>11, <2>2, <2>3, <2>4, <2>5 DEF Exit, Crash, Dies, TypeOK, rowVars
  <1>12. ASSUME NEW j \in Job, BecomeDue(j) \/ LeaseExpires(j)
         PROVE  TypeOK'
    BY <1>12 DEF BecomeDue, LeaseExpires, TypeOK, runVars
  <1>13. CASE UNCHANGED vars
    BY <1>13 DEF vars, rowVars, runVars, TypeOK
  <1> QED
    BY <1>1, <1>2, <1>3, <1>4, <1>5, <1>6, <1>7, <1>9, <1>10, <1>11, <1>12, <1>13
       DEF Next, ClaimSome, RunStep
(* The other parts of the invariant. *)
LEMMA AttemptsLeftPreserved == IInv /\ [Next]_vars => AttemptsLeft'
  <1> SUFFICES ASSUME IInv, [Next]_vars, NEW i \in Job,
                      status'[i] \in {"absent", "pending"}
               PROVE  attempts'[i] < MaxAttempts
    BY DEF AttemptsLeft
  <1> USE DEF IInv, TypeOK, AttemptsLeft
  <1>1. ASSUME NEW j \in Job, NEW c \in Contact \cup {None},
               NEW e \in Event \cup {None}, NEW now \in BOOLEAN, Enqueue(j, c, e, now)
        PROVE  attempts'[i] < MaxAttempts
    BY <1>1 DEF Enqueue
  <1>2. ASSUME NEW w \in Worker, NEW S \in SUBSET Job, NEW received \in BOOLEAN,
               Claim(w, S, received)
        PROVE  attempts'[i] < MaxAttempts
    BY <1>2 DEF Claim
  <1>3. ASSUME NEW w \in Worker, NEW j \in Job, NEW k \in RunKind, RunCompletes(w, j, k)
        PROVE  attempts'[i] < MaxAttempts
    BY <1>3 DEF RunCompletes, ReleaseRow
  <1>4. ASSUME NEW w \in Worker, NEW j \in Job, NEW k \in RunKind, RunFails(w, j, k)
        PROVE  attempts'[i] < MaxAttempts
    BY <1>4 DEF RunFails, ReleaseRow, GivenBack
  <1>5. ASSUME NEW w \in Worker, NEW j \in Job, NEW k \in RunKind, RunCancels(w, j, k)
        PROVE  attempts'[i] < MaxAttempts
    BY <1>5 DEF RunCancels, ReleaseRow
  <1>6. ASSUME NEW w \in Worker, NEW j \in Job, NEW k \in RunKind, RunReschedules(w, j, k)
        PROVE  attempts'[i] < MaxAttempts
    BY <1>6 DEF RunReschedules, ReleaseRow
  <1>7. ASSUME NEW w \in Worker, NEW j \in Job, NEW k \in RunKind, RunEndsSilently(w, j, k)
        PROVE  attempts'[i] < MaxAttempts
    BY <1>7 DEF RunEndsSilently, rowVars
  <1>8. ASSUME NEW R \in SUBSET Job, GiveBackAll(R)
        PROVE  attempts'[i] < MaxAttempts
    BY <1>8 DEF GiveBackAll, GivenBack
  <1>9. ASSUME NEW w \in Worker, Reap(w) \/ Boot(w)
        PROVE  attempts'[i] < MaxAttempts
    BY <1>8, <1>9 DEF Reap, Boot, ReapExpired, Running
  <1>10. ASSUME NEW w \in Worker, BeginShutdown(w) \/ Exit(w) \/ Crash(w)
         PROVE  attempts'[i] < MaxAttempts
    BY <1>10 DEF BeginShutdown, Exit, Crash, Dies, rowVars
  <1>11. ASSUME NEW j \in Job, BecomeDue(j) \/ LeaseExpires(j)
         PROVE  attempts'[i] < MaxAttempts
    BY <1>11 DEF BecomeDue, LeaseExpires
  <1>12. CASE UNCHANGED vars
    BY <1>12 DEF vars, rowVars
  <1> QED
    BY <1>1, <1>2, <1>3, <1>4, <1>5, <1>6, <1>7, <1>9, <1>10, <1>11, <1>12
       DEF Next, ClaimSome, RunStep
LEMMA LockedIffRunningPreserved == IInv /\ [Next]_vars => LockedIffRunning'
  <1> SUFFICES ASSUME IInv, [Next]_vars PROVE LockedIffRunning'
    OBVIOUS
  <1>1. ASSUME NEW j \in Job, NEW c \in Contact \cup {None},
               NEW e \in Event \cup {None}, NEW now \in BOOLEAN, Enqueue(j, c, e, now)
        PROVE  LockedIffRunning'
    BY <1>1 DEF Enqueue, runVars, IInv, TypeOK, LeaseConsistent, LockedIffRunning, Running
  <1>2. ASSUME NEW w \in Worker, NEW S \in SUBSET Job, NEW received \in BOOLEAN,
               Claim(w, S, received)
        PROVE  LockedIffRunning'
    BY <1>2 DEF Claim, Claimable, IInv, TypeOK, LeaseConsistent, LockedIffRunning, Running
  <1>3. ASSUME NEW w \in Worker, NEW j \in Job, NEW k \in RunKind, RunCompletes(w, j, k)
        PROVE  LockedIffRunning'
    BY <1>3 DEF RunCompletes, ReleaseRow, HoldsLease, EndRunReleasing, IInv, TypeOK, LeaseConsistent, LockedIffRunning, Running
  <1>4. ASSUME NEW w \in Worker, NEW j \in Job, NEW k \in RunKind, RunFails(w, j, k)
        PROVE  LockedIffRunning'
    BY <1>4 DEF RunFails, ReleaseRow, GivenBack, HoldsLease, EndRunReleasing, IInv, TypeOK, LeaseConsistent, LockedIffRunning, Running
  <1>5. ASSUME NEW w \in Worker, NEW j \in Job, NEW k \in RunKind, RunCancels(w, j, k)
        PROVE  LockedIffRunning'
    BY <1>5 DEF RunCancels, ReleaseRow, HoldsLease, EndRunReleasing, IInv, TypeOK, LeaseConsistent, LockedIffRunning, Running
  <1>6. ASSUME NEW w \in Worker, NEW j \in Job, NEW k \in RunKind, RunReschedules(w, j, k)
        PROVE  LockedIffRunning'
    BY <1>6 DEF RunReschedules, ReleaseRow, HoldsLease, EndRunReleasing, IInv, TypeOK, LeaseConsistent, LockedIffRunning, Running
  <1>7. ASSUME NEW w \in Worker, NEW j \in Job, NEW k \in RunKind, RunEndsSilently(w, j, k)
        PROVE  LockedIffRunning'
    BY <1>7 DEF RunEndsSilently, InFlight, rowVars, IInv, TypeOK, LeaseConsistent, LockedIffRunning, Running
  <1>8. ASSUME NEW R \in SUBSET Running, GiveBackAll(R),
               UNCHANGED process \/ \E w \in Worker : process' = [process EXCEPT ![w] = "up"]
        PROVE  LockedIffRunning'
    BY <1>8 DEF GiveBackAll, GivenBack, Running, IInv, TypeOK, LeaseConsistent, LockedIffRunning, Running
  <1>9. ASSUME NEW w \in Worker, Reap(w) \/ Boot(w)
        PROVE  LockedIffRunning'
    BY <1>8, <1>9 DEF Reap, Boot, ReapExpired
  <1>10. ASSUME NEW w \in Worker, BeginShutdown(w)
         PROVE  LockedIffRunning'
    BY <1>10 DEF BeginShutdown, rowVars, runVars, IInv, TypeOK, LeaseConsistent, LockedIffRunning, Running
  <1>11. ASSUME NEW w \in Worker, Exit(w) \/ Crash(w)
         PROVE  LockedIffRunning'
    BY <1>11 DEF Exit, Crash, Dies, rowVars, IInv, TypeOK, LeaseConsistent, LockedIffRunning, Running
  <1>12. ASSUME NEW j \in Job, BecomeDue(j)
         PROVE  LockedIffRunning'
    BY <1>12 DEF BecomeDue, runVars, IInv, TypeOK, LeaseConsistent, LockedIffRunning, Running
  <1>13. ASSUME NEW j \in Job, LeaseExpires(j)
         PROVE  LockedIffRunning'
    BY <1>13 DEF LeaseExpires, runVars, IInv, TypeOK, LeaseConsistent, LockedIffRunning, Running
  <1>14. CASE UNCHANGED vars
    BY <1>14 DEF vars, rowVars, runVars, IInv, TypeOK, LeaseConsistent, LockedIffRunning, Running
  <1> QED
    BY <1>1, <1>2, <1>3, <1>4, <1>5, <1>6, <1>7, <1>9, <1>10, <1>11, <1>12, <1>13, <1>14
       DEF Next, ClaimSome, RunStep

LEMMA LiveRunHoldsLeasePreserved == IInv /\ [Next]_vars => LiveRunHoldsLease'
  <1> SUFFICES ASSUME IInv, [Next]_vars, NEW i \in live'
               PROVE  status'[i] = "running" /\ process'[lockedBy'[i]] # "down"
    BY DEF LiveRunHoldsLease
  <1>1. ASSUME NEW j \in Job, NEW c \in Contact \cup {None},
               NEW e \in Event \cup {None}, NEW now \in BOOLEAN, Enqueue(j, c, e, now)
        PROVE  status'[i] = "running" /\ process'[lockedBy'[i]] # "down"
    BY <1>1 DEF Enqueue, runVars, IInv, TypeOK, LeaseConsistent, LockedIffRunning, LiveRunHoldsLease
  <1>2. ASSUME NEW w \in Worker, NEW S \in SUBSET Job, NEW received \in BOOLEAN,
               Claim(w, S, received)
        PROVE  status'[i] = "running" /\ process'[lockedBy'[i]] # "down"
    BY <1>2 DEF Claim, Claimable, IInv, TypeOK, LeaseConsistent, LockedIffRunning, LiveRunHoldsLease
  <1>3. ASSUME NEW w \in Worker, NEW j \in Job, NEW k \in RunKind, RunCompletes(w, j, k)
        PROVE  status'[i] = "running" /\ process'[lockedBy'[i]] # "down"
    BY <1>3 DEF RunCompletes, ReleaseRow, HoldsLease, EndRunReleasing, IInv, TypeOK, LeaseConsistent, LockedIffRunning, LiveRunHoldsLease
  <1>4. ASSUME NEW w \in Worker, NEW j \in Job, NEW k \in RunKind, RunFails(w, j, k)
        PROVE  status'[i] = "running" /\ process'[lockedBy'[i]] # "down"
    BY <1>4 DEF RunFails, ReleaseRow, GivenBack, HoldsLease, EndRunReleasing, IInv, TypeOK, LeaseConsistent, LockedIffRunning, LiveRunHoldsLease
  <1>5. ASSUME NEW w \in Worker, NEW j \in Job, NEW k \in RunKind, RunCancels(w, j, k)
        PROVE  status'[i] = "running" /\ process'[lockedBy'[i]] # "down"
    BY <1>5 DEF RunCancels, ReleaseRow, HoldsLease, EndRunReleasing, IInv, TypeOK, LeaseConsistent, LockedIffRunning, LiveRunHoldsLease
  <1>6. ASSUME NEW w \in Worker, NEW j \in Job, NEW k \in RunKind, RunReschedules(w, j, k)
        PROVE  status'[i] = "running" /\ process'[lockedBy'[i]] # "down"
    BY <1>6 DEF RunReschedules, ReleaseRow, HoldsLease, EndRunReleasing, IInv, TypeOK, LeaseConsistent, LockedIffRunning, LiveRunHoldsLease
  <1>7. ASSUME NEW w \in Worker, NEW j \in Job, NEW k \in RunKind, RunEndsSilently(w, j, k)
        PROVE  status'[i] = "running" /\ process'[lockedBy'[i]] # "down"
    BY <1>7 DEF RunEndsSilently, InFlight, rowVars, IInv, TypeOK, LeaseConsistent, LockedIffRunning, LiveRunHoldsLease
  <1>8. ASSUME NEW R \in SUBSET Running, GiveBackAll(R),
               UNCHANGED process \/ \E w \in Worker : process' = [process EXCEPT ![w] = "up"]
        PROVE  status'[i] = "running" /\ process'[lockedBy'[i]] # "down"
    BY <1>8 DEF GiveBackAll, GivenBack, Running, IInv, TypeOK, LeaseConsistent, LockedIffRunning, LiveRunHoldsLease
  <1>9. ASSUME NEW w \in Worker, Reap(w) \/ Boot(w)
        PROVE  status'[i] = "running" /\ process'[lockedBy'[i]] # "down"
    BY <1>8, <1>9 DEF Reap, Boot, ReapExpired
  <1>10. ASSUME NEW w \in Worker, BeginShutdown(w)
         PROVE  status'[i] = "running" /\ process'[lockedBy'[i]] # "down"
    BY <1>10 DEF BeginShutdown, rowVars, runVars, IInv, TypeOK, LeaseConsistent, LockedIffRunning, LiveRunHoldsLease
  <1>11. ASSUME NEW w \in Worker, Exit(w) \/ Crash(w)
         PROVE  status'[i] = "running" /\ process'[lockedBy'[i]] # "down"
    BY <1>11 DEF Exit, Crash, Dies, rowVars, IInv, TypeOK, LeaseConsistent, LockedIffRunning, LiveRunHoldsLease
  <1>12. ASSUME NEW j \in Job, BecomeDue(j)
         PROVE  status'[i] = "running" /\ process'[lockedBy'[i]] # "down"
    BY <1>12 DEF BecomeDue, runVars, IInv, TypeOK, LeaseConsistent, LockedIffRunning, LiveRunHoldsLease
  <1>13. ASSUME NEW j \in Job, LeaseExpires(j)
         PROVE  status'[i] = "running" /\ process'[lockedBy'[i]] # "down"
    BY <1>13 DEF LeaseExpires, runVars, IInv, TypeOK, LeaseConsistent, LockedIffRunning, LiveRunHoldsLease
  <1>14. CASE UNCHANGED vars
    BY <1>14 DEF vars, rowVars, runVars, IInv, TypeOK, LeaseConsistent, LockedIffRunning, LiveRunHoldsLease
  <1> QED
    BY <1>1, <1>2, <1>3, <1>4, <1>5, <1>6, <1>7, <1>9, <1>10, <1>11, <1>12, <1>13, <1>14
       DEF Next, ClaimSome, RunStep

LEMMA InFlightIsUp ==
  ASSUME IInv, NEW w \in Worker, NEW j \in Job, NEW k \in RunKind, InFlight(w, j, k)
  PROVE  process[w] # "down"
  BY DEF IInv, TypeOK, LeaseConsistent, LiveRunHoldsLease, DownRunsNothing, InFlight

(* What the end of a run does to each counter. *)
LEMMA EndRunPointwise ==
  ASSUME TypeOK, NEW w \in Worker, NEW j \in Job, EndRunReleasing(w, j),
         NEW i \in Job, NEW v \in Worker
  PROVE  staleRuns'[i][v] = IF i = j /\ v = w THEN RunsIn(w, j) - 1 ELSE staleRuns[i][v]
  BY DEF TypeOK, EndRunReleasing

LEMMA EndRunKeepsDown ==
  ASSUME IInv, NEW w \in Worker, NEW j \in Job, NEW k \in RunKind,
         InFlight(w, j, k), EndRunReleasing(w, j), UNCHANGED process,
         NEW i \in Job, NEW v \in Worker, process'[v] = "down"
  PROVE  staleRuns'[i][v] = 0
  <1>1. v # w
    BY InFlightIsUp
  <1>2. TypeOK /\ staleRuns[i][v] = 0
    BY DEF IInv, LeaseConsistent, DownRunsNothing
  <1> QED
    BY <1>1, <1>2, EndRunPointwise

LEMMA DownRunsNothingPreserved == IInv /\ [Next]_vars => DownRunsNothing'
  <1> SUFFICES ASSUME IInv, [Next]_vars, NEW i \in Job, NEW v \in Worker,
                      process'[v] = "down"
               PROVE  staleRuns'[i][v] = 0
    BY DEF DownRunsNothing
  <1>1. ASSUME NEW j \in Job, NEW c \in Contact \cup {None},
               NEW e \in Event \cup {None}, NEW now \in BOOLEAN, Enqueue(j, c, e, now)
        PROVE  staleRuns'[i][v] = 0
    BY <1>1 DEF Enqueue, runVars, IInv, TypeOK, LeaseConsistent, LiveRunHoldsLease, DownRunsNothing
  <1>2. ASSUME NEW w \in Worker, NEW S \in SUBSET Job, NEW received \in BOOLEAN,
               Claim(w, S, received)
        PROVE  staleRuns'[i][v] = 0
    BY <1>2 DEF Claim, Claimable, IInv, TypeOK, LeaseConsistent, LiveRunHoldsLease, DownRunsNothing
  <1>3. ASSUME NEW w \in Worker, NEW j \in Job, NEW k \in RunKind, RunCompletes(w, j, k)
        PROVE  staleRuns'[i][v] = 0
    BY <1>3, EndRunKeepsDown DEF RunCompletes
  <1>4. ASSUME NEW w \in Worker, NEW j \in Job, NEW k \in RunKind, RunFails(w, j, k)
        PROVE  staleRuns'[i][v] = 0
    BY <1>4, EndRunKeepsDown DEF RunFails
  <1>5. ASSUME NEW w \in Worker, NEW j \in Job, NEW k \in RunKind, RunCancels(w, j, k)
        PROVE  staleRuns'[i][v] = 0
    BY <1>5, EndRunKeepsDown DEF RunCancels
  <1>6. ASSUME NEW w \in Worker, NEW j \in Job, NEW k \in RunKind, RunReschedules(w, j, k)
        PROVE  staleRuns'[i][v] = 0
    BY <1>6, EndRunKeepsDown DEF RunReschedules
  <1>7. ASSUME NEW w \in Worker, NEW j \in Job, NEW k \in RunKind, RunEndsSilently(w, j, k)
        PROVE  staleRuns'[i][v] = 0
    <2>1. v # w
      BY <1>7, InFlightIsUp DEF RunEndsSilently
    <2>2. staleRuns'[i][v] = staleRuns[i][v]
      BY <1>7, <2>1 DEF RunEndsSilently, IInv, TypeOK
    <2>3. process[v] = "down"
      BY <1>7 DEF RunEndsSilently
    <2> QED
      BY <2>2, <2>3 DEF IInv, LeaseConsistent, DownRunsNothing
  <1>8. ASSUME NEW R \in SUBSET Running, GiveBackAll(R),
               UNCHANGED process \/ \E w \in Worker : process' = [process EXCEPT ![w] = "up"]
        PROVE  staleRuns'[i][v] = 0
    <2>1. process[v] = "down"
      BY <1>8 DEF IInv, TypeOK
    <2>2. staleRuns[i][v] = 0 /\ RunsIn(v, i) = 0
      BY <2>1 DEF RunsIn, IInv, LeaseConsistent, LiveRunHoldsLease, DownRunsNothing
    <2>3. staleRuns'[i][v] = IF i \in R THEN RunsIn(v, i) ELSE staleRuns[i][v]
      BY <1>8 DEF GiveBackAll
    <2> QED
      BY <2>2, <2>3
  <1>9. ASSUME NEW w \in Worker, Reap(w) \/ Boot(w)
        PROVE  staleRuns'[i][v] = 0
    BY <1>8, <1>9 DEF Reap, Boot, ReapExpired
  <1>10. ASSUME NEW w \in Worker, BeginShutdown(w)
         PROVE  staleRuns'[i][v] = 0
    BY <1>10 DEF BeginShutdown, rowVars, runVars, IInv, TypeOK, LeaseConsistent, LiveRunHoldsLease, DownRunsNothing
  <1>11. ASSUME NEW w \in Worker, Exit(w) \/ Crash(w)
         PROVE  staleRuns'[i][v] = 0
    <2>1. staleRuns'[i][v] = IF v = w THEN 0 ELSE staleRuns[i][v]
      BY <1>11 DEF Exit, Crash, Dies, IInv, TypeOK
    <2>2. v # w => process[v] = "down"
      BY <1>11 DEF Exit, Crash, Dies, IInv, TypeOK
    <2> QED
      BY <2>1, <2>2 DEF IInv, LeaseConsistent, DownRunsNothing
  <1>12. ASSUME NEW j \in Job, BecomeDue(j)
         PROVE  staleRuns'[i][v] = 0
    BY <1>12 DEF BecomeDue, runVars, IInv, TypeOK, LeaseConsistent, LiveRunHoldsLease, DownRunsNothing
  <1>13. ASSUME NEW j \in Job, LeaseExpires(j)
         PROVE  staleRuns'[i][v] = 0
    BY <1>13 DEF LeaseExpires, runVars, IInv, TypeOK, LeaseConsistent, LiveRunHoldsLease, DownRunsNothing
  <1>14. CASE UNCHANGED vars
    BY <1>14 DEF vars, rowVars, runVars, IInv, TypeOK, LeaseConsistent, LiveRunHoldsLease, DownRunsNothing
  <1> QED
    BY <1>1, <1>2, <1>3, <1>4, <1>5, <1>6, <1>7, <1>9, <1>10, <1>11, <1>12, <1>13, <1>14
       DEF Next, ClaimSome, RunStep

LEMMA GivenBackCases ==
  ASSUME TypeOK, NEW j \in Job
  PROVE  \/ GivenBack(j) = "pending"
         \/ GivenBack(j) = "dead" /\ attempts[j] = MaxAttempts
  <1>1. attempts[j] \in 0..MaxAttempts
    BY DEF TypeOK
  <1> QED
    BY <1>1 DEF GivenBack

LEMMA DeadIsAlertedPreserved == IInv /\ [Next]_vars => DeadIsAlerted'
  <1> DEFINE Right(j) == IF status[j] = "dead" THEN alerts[j] = 1 /\ attempts[j] = MaxAttempts
                                               ELSE alerts[j] = 0
  <1> SUFFICES ASSUME IInv, [Next]_vars, NEW i \in Job PROVE Right(i)'
    BY DEF DeadIsAlerted
  <1>1. ASSUME NEW j \in Job, NEW c \in Contact \cup {None},
               NEW e \in Event \cup {None}, NEW now \in BOOLEAN, Enqueue(j, c, e, now)
        PROVE  Right(i)'
    BY <1>1 DEF Enqueue, runVars, IInv, TypeOK, DeadIsAlerted
  <1>2. ASSUME NEW w \in Worker, NEW S \in SUBSET Job, NEW received \in BOOLEAN,
               Claim(w, S, received)
        PROVE  Right(i)'
    BY <1>2 DEF Claim, Claimable, IInv, TypeOK, DeadIsAlerted
  <1>3. ASSUME NEW w \in Worker, NEW j \in Job, NEW k \in RunKind, RunCompletes(w, j, k)
        PROVE  Right(i)'
    BY <1>3 DEF RunCompletes, ReleaseRow, HoldsLease, EndRunReleasing, IInv, TypeOK, DeadIsAlerted
  <1>4. ASSUME NEW w \in Worker, NEW j \in Job, NEW k \in RunKind, RunFails(w, j, k)
        PROVE  Right(i)'
    BY <1>4, GivenBackCases DEF RunFails, ReleaseRow, HoldsLease, IInv, TypeOK, DeadIsAlerted
  <1>5. ASSUME NEW w \in Worker, NEW j \in Job, NEW k \in RunKind, RunCancels(w, j, k)
        PROVE  Right(i)'
    BY <1>5 DEF RunCancels, ReleaseRow, HoldsLease, EndRunReleasing, IInv, TypeOK, DeadIsAlerted
  <1>6. ASSUME NEW w \in Worker, NEW j \in Job, NEW k \in RunKind, RunReschedules(w, j, k)
        PROVE  Right(i)'
    BY <1>6 DEF RunReschedules, ReleaseRow, HoldsLease, EndRunReleasing, IInv, TypeOK, DeadIsAlerted
  <1>7. ASSUME NEW w \in Worker, NEW j \in Job, NEW k \in RunKind, RunEndsSilently(w, j, k)
        PROVE  Right(i)'
    BY <1>7 DEF RunEndsSilently, InFlight, rowVars, IInv, TypeOK, DeadIsAlerted
  <1>8. ASSUME NEW R \in SUBSET Running, GiveBackAll(R),
               UNCHANGED process \/ \E w \in Worker : process' = [process EXCEPT ![w] = "up"]
        PROVE  Right(i)'
    BY <1>8, GivenBackCases DEF GiveBackAll, Running, IInv, TypeOK, DeadIsAlerted
  <1>9. ASSUME NEW w \in Worker, Reap(w) \/ Boot(w)
        PROVE  Right(i)'
    BY <1>8, <1>9 DEF Reap, Boot, ReapExpired
  <1>10. ASSUME NEW w \in Worker, BeginShutdown(w)
         PROVE  Right(i)'
    BY <1>10 DEF BeginShutdown, rowVars, runVars, IInv, TypeOK, DeadIsAlerted
  <1>11. ASSUME NEW w \in Worker, Exit(w) \/ Crash(w)
         PROVE  Right(i)'
    BY <1>11 DEF Exit, Crash, Dies, rowVars, IInv, TypeOK, DeadIsAlerted
  <1>12. ASSUME NEW j \in Job, BecomeDue(j)
         PROVE  Right(i)'
    BY <1>12 DEF BecomeDue, runVars, IInv, TypeOK, DeadIsAlerted
  <1>13. ASSUME NEW j \in Job, LeaseExpires(j)
         PROVE  Right(i)'
    BY <1>13 DEF LeaseExpires, runVars, IInv, TypeOK, DeadIsAlerted
  <1>14. CASE UNCHANGED vars
    BY <1>14 DEF vars, rowVars, runVars, IInv, TypeOK, DeadIsAlerted
  <1> QED
    BY <1>1, <1>2, <1>3, <1>4, <1>5, <1>6, <1>7, <1>9, <1>10, <1>11, <1>12, <1>13, <1>14
       DEF Next, ClaimSome, RunStep

LEMMA LaneExclusivePreserved == IInv /\ [Next]_vars => LaneExclusive'
  <1> SUFFICES ASSUME IInv, [Next]_vars PROVE LaneExclusive'
    OBVIOUS
  <1>1. ASSUME NEW j \in Job, NEW c \in Contact \cup {None},
               NEW e \in Event \cup {None}, NEW now \in BOOLEAN, Enqueue(j, c, e, now)
        PROVE  LaneExclusive'
    BY <1>1 DEF Enqueue, runVars, IInv, TypeOK, LaneExclusive, Running
  <1>2. ASSUME NEW w \in Worker, NEW S \in SUBSET Job, NEW received \in BOOLEAN,
               Claim(w, S, received)
        PROVE  LaneExclusive'
    BY <1>2 DEF Claim, Claimable, OnePerLane, IInv, TypeOK, LaneExclusive, Running
  <1>3. ASSUME NEW w \in Worker, NEW j \in Job, NEW k \in RunKind, RunCompletes(w, j, k)
        PROVE  LaneExclusive'
    BY <1>3 DEF RunCompletes, ReleaseRow, HoldsLease, EndRunReleasing, IInv, TypeOK, LaneExclusive, Running
  <1>4. ASSUME NEW w \in Worker, NEW j \in Job, NEW k \in RunKind, RunFails(w, j, k)
        PROVE  LaneExclusive'
    BY <1>4 DEF RunFails, ReleaseRow, GivenBack, HoldsLease, EndRunReleasing, IInv, TypeOK, LaneExclusive, Running
  <1>5. ASSUME NEW w \in Worker, NEW j \in Job, NEW k \in RunKind, RunCancels(w, j, k)
        PROVE  LaneExclusive'
    BY <1>5 DEF RunCancels, ReleaseRow, HoldsLease, EndRunReleasing, IInv, TypeOK, LaneExclusive, Running
  <1>6. ASSUME NEW w \in Worker, NEW j \in Job, NEW k \in RunKind, RunReschedules(w, j, k)
        PROVE  LaneExclusive'
    BY <1>6 DEF RunReschedules, ReleaseRow, HoldsLease, EndRunReleasing, IInv, TypeOK, LaneExclusive, Running
  <1>7. ASSUME NEW w \in Worker, NEW j \in Job, NEW k \in RunKind, RunEndsSilently(w, j, k)
        PROVE  LaneExclusive'
    BY <1>7 DEF RunEndsSilently, InFlight, rowVars, IInv, TypeOK, LaneExclusive, Running
  <1>8. ASSUME NEW R \in SUBSET Running, GiveBackAll(R),
               UNCHANGED process \/ \E w \in Worker : process' = [process EXCEPT ![w] = "up"]
        PROVE  LaneExclusive'
    BY <1>8 DEF GiveBackAll, GivenBack, Running, IInv, TypeOK, LaneExclusive, Running
  <1>9. ASSUME NEW w \in Worker, Reap(w) \/ Boot(w)
        PROVE  LaneExclusive'
    BY <1>8, <1>9 DEF Reap, Boot, ReapExpired
  <1>10. ASSUME NEW w \in Worker, BeginShutdown(w)
         PROVE  LaneExclusive'
    BY <1>10 DEF BeginShutdown, rowVars, runVars, IInv, TypeOK, LaneExclusive, Running
  <1>11. ASSUME NEW w \in Worker, Exit(w) \/ Crash(w)
         PROVE  LaneExclusive'
    BY <1>11 DEF Exit, Crash, Dies, rowVars, IInv, TypeOK, LaneExclusive, Running
  <1>12. ASSUME NEW j \in Job, BecomeDue(j)
         PROVE  LaneExclusive'
    BY <1>12 DEF BecomeDue, runVars, IInv, TypeOK, LaneExclusive, Running
  <1>13. ASSUME NEW j \in Job, LeaseExpires(j)
         PROVE  LaneExclusive'
    BY <1>13 DEF LeaseExpires, runVars, IInv, TypeOK, LaneExclusive, Running
  <1>14. CASE UNCHANGED vars
    BY <1>14 DEF vars, rowVars, runVars, IInv, TypeOK, LaneExclusive, Running
  <1> QED
    BY <1>1, <1>2, <1>3, <1>4, <1>5, <1>6, <1>7, <1>9, <1>10, <1>11, <1>12, <1>13, <1>14
       DEF Next, ClaimSome, RunStep

LEMMA OneJobPerEventPreserved == IInv /\ [Next]_vars => OneJobPerEvent'
  <1> SUFFICES ASSUME IInv, [Next]_vars PROVE OneJobPerEvent'
    OBVIOUS
  <1>1. ASSUME NEW j \in Job, NEW c \in Contact \cup {None},
               NEW e \in Event \cup {None}, NEW now \in BOOLEAN, Enqueue(j, c, e, now)
        PROVE  OneJobPerEvent'
    BY <1>1 DEF Enqueue, runVars, IInv, TypeOK, OneJobPerEvent
  <1>2. ASSUME NEW w \in Worker, NEW S \in SUBSET Job, NEW received \in BOOLEAN,
               Claim(w, S, received)
        PROVE  OneJobPerEvent'
    BY <1>2 DEF Claim, Claimable, IInv, TypeOK, OneJobPerEvent
  <1>3. ASSUME NEW w \in Worker, NEW j \in Job, NEW k \in RunKind, RunCompletes(w, j, k)
        PROVE  OneJobPerEvent'
    BY <1>3 DEF RunCompletes, ReleaseRow, HoldsLease, EndRunReleasing, IInv, TypeOK, OneJobPerEvent
  <1>4. ASSUME NEW w \in Worker, NEW j \in Job, NEW k \in RunKind, RunFails(w, j, k)
        PROVE  OneJobPerEvent'
    BY <1>4 DEF RunFails, ReleaseRow, GivenBack, HoldsLease, EndRunReleasing, IInv, TypeOK, OneJobPerEvent
  <1>5. ASSUME NEW w \in Worker, NEW j \in Job, NEW k \in RunKind, RunCancels(w, j, k)
        PROVE  OneJobPerEvent'
    BY <1>5 DEF RunCancels, ReleaseRow, HoldsLease, EndRunReleasing, IInv, TypeOK, OneJobPerEvent
  <1>6. ASSUME NEW w \in Worker, NEW j \in Job, NEW k \in RunKind, RunReschedules(w, j, k)
        PROVE  OneJobPerEvent'
    BY <1>6 DEF RunReschedules, ReleaseRow, HoldsLease, EndRunReleasing, IInv, TypeOK, OneJobPerEvent
  <1>7. ASSUME NEW w \in Worker, NEW j \in Job, NEW k \in RunKind, RunEndsSilently(w, j, k)
        PROVE  OneJobPerEvent'
    BY <1>7 DEF RunEndsSilently, InFlight, rowVars, IInv, TypeOK, OneJobPerEvent
  <1>8. ASSUME NEW R \in SUBSET Running, GiveBackAll(R),
               UNCHANGED process \/ \E w \in Worker : process' = [process EXCEPT ![w] = "up"]
        PROVE  OneJobPerEvent'
    BY <1>8 DEF GiveBackAll, GivenBack, Running, IInv, TypeOK, OneJobPerEvent
  <1>9. ASSUME NEW w \in Worker, Reap(w) \/ Boot(w)
        PROVE  OneJobPerEvent'
    BY <1>8, <1>9 DEF Reap, Boot, ReapExpired
  <1>10. ASSUME NEW w \in Worker, BeginShutdown(w)
         PROVE  OneJobPerEvent'
    BY <1>10 DEF BeginShutdown, rowVars, runVars, IInv, TypeOK, OneJobPerEvent
  <1>11. ASSUME NEW w \in Worker, Exit(w) \/ Crash(w)
         PROVE  OneJobPerEvent'
    BY <1>11 DEF Exit, Crash, Dies, rowVars, IInv, TypeOK, OneJobPerEvent
  <1>12. ASSUME NEW j \in Job, BecomeDue(j)
         PROVE  OneJobPerEvent'
    BY <1>12 DEF BecomeDue, runVars, IInv, TypeOK, OneJobPerEvent
  <1>13. ASSUME NEW j \in Job, LeaseExpires(j)
         PROVE  OneJobPerEvent'
    BY <1>13 DEF LeaseExpires, runVars, IInv, TypeOK, OneJobPerEvent
  <1>14. CASE UNCHANGED vars
    BY <1>14 DEF vars, rowVars, runVars, IInv, TypeOK, OneJobPerEvent
  <1> QED
    BY <1>1, <1>2, <1>3, <1>4, <1>5, <1>6, <1>7, <1>9, <1>10, <1>11, <1>12, <1>13, <1>14
       DEF Next, ClaimSome, RunStep

LEMMA IInvPreserved == IInv /\ [Next]_vars => IInv'
  BY TypePreserved, AttemptsLeftPreserved, LockedIffRunningPreserved,
     LiveRunHoldsLeasePreserved, DownRunsNothingPreserved, DeadIsAlertedPreserved,
     LaneExclusivePreserved, OneJobPerEventPreserved
     DEF IInv, LeaseConsistent

LEMMA IInvHolds == Spec => []IInv
  BY InitIInv, IInvPreserved, PTL DEF Spec

(* Every reachable state is well typed: in particular no row is ever       *)
(* claimed more often than max_attempts and no run count goes negative.    *)
THEOREM TypeCorrect == Spec => []TypeOK
  BY IInvHolds, PTL DEF IInv

(* For any number of workers, jobs and contacts, crashes and late handlers *)
(* included, two rows of one contact never run at once.                    *)
THEOREM LaneExclusion == Spec => []LaneExclusive
  BY IInvHolds, PTL DEF IInv

(* Locks, live handlers and processes always agree. *)
THEOREM LeasesConsistent == Spec => []LeaseConsistent
  BY IInvHolds, PTL DEF IInv

(* A row is dead exactly when one alert says so, and never before its      *)
(* attempts are used up, whether failJob or the reaper killed it.          *)
THEOREM DeadJobsAlerted == Spec => []DeadIsAlerted
  BY IInvHolds, PTL DEF IInv

(* No event becomes two jobs. *)
THEOREM EventsDeduplicated == Spec => []OneJobPerEvent
  BY IInvHolds, PTL DEF IInv

-----------------------------------------------------------------------------
(* The global cap.  Only the claim adds running rows, and it counts them.  *)
LEMMA RunningFinite == IsFiniteSet(Running)
  BY JobAssumption, FS_Subset DEF Running

LEMMA CapPreserved == IInv /\ CapRespected /\ [Next]_vars => CapRespected'
  <1> SUFFICES ASSUME IInv, CapRespected, [Next]_vars PROVE CapRespected'
    OBVIOUS
  <1>1. ASSUME NEW w \in Worker, NEW S \in SUBSET Job, NEW received \in BOOLEAN,
               Claim(w, S, received)
        PROVE  CapRespected'
    <2>1. Running' = Running \cup S
      BY <1>1 DEF Claim, Running
    <2>2. IsFiniteSet(S) /\ IsFiniteSet(Running \cap S)
      BY JobAssumption, FS_Subset, RunningFinite
    <2>3. Cardinality(Running') = Cardinality(Running) + Cardinality(S)
                                  - Cardinality(Running \cap S)
      BY <2>1, <2>2, RunningFinite, FS_Union
    <2>4. Cardinality(Running \cap S) \in Nat /\ Cardinality(Running) \in Nat
          /\ Cardinality(S) \in Nat
      BY <2>2, RunningFinite, FS_CardinalityType
    <2>5. Cardinality(Running) + Cardinality(S) <= MaxConcurrency
      BY <1>1 DEF Claim, FitsCap
    <2> QED
      BY <2>3, <2>4, <2>5 DEF CapRespected
  <1>2. ASSUME Running' \subseteq Running
        PROVE  CapRespected'
    <2>1. Cardinality(Running') <= Cardinality(Running)
      BY <1>2, RunningFinite, FS_Subset
    <2>2. Cardinality(Running) \in Nat /\ Cardinality(Running') \in Nat
      BY <1>2, RunningFinite, FS_Subset, FS_CardinalityType
    <2> QED
      BY <2>1, <2>2 DEF CapRespected
  <1>3. ASSUME NEW j \in Job, NEW c \in Contact \cup {None},
               NEW e \in Event \cup {None}, NEW now \in BOOLEAN, Enqueue(j, c, e, now)
        PROVE  Running' \subseteq Running
    BY <1>3 DEF Enqueue, Running, IInv, TypeOK
  <1>4. ASSUME NEW w \in Worker, NEW j \in Job, RunStep(w, j)
        PROVE  Running' \subseteq Running
    BY <1>4 DEF RunStep, RunCompletes, RunFails, RunCancels, RunReschedules, RunEndsSilently,
                ReleaseRow, GivenBack, Running, IInv, TypeOK, rowVars
  <1>5. ASSUME NEW w \in Worker, Reap(w) \/ Boot(w)
        PROVE  Running' \subseteq Running
    BY <1>5 DEF Reap, Boot, ReapExpired, GiveBackAll, GivenBack, Running
  <1>6. ASSUME NEW w \in Worker, BeginShutdown(w) \/ Exit(w) \/ Crash(w)
        PROVE  Running' \subseteq Running
    BY <1>6 DEF BeginShutdown, Exit, Crash, Dies, rowVars, Running
  <1>7. ASSUME NEW j \in Job, BecomeDue(j) \/ LeaseExpires(j)
        PROVE  Running' \subseteq Running
    BY <1>7 DEF BecomeDue, LeaseExpires, Running
  <1>8. CASE UNCHANGED vars
    BY <1>2, <1>8 DEF vars, rowVars, Running
  <1> QED
    BY <1>1, <1>2, <1>3, <1>4, <1>5, <1>6, <1>7, <1>8 DEF Next, ClaimSome

(* The rows running at once never exceed QUEUE_MAX_CONCURRENCY, however    *)
(* many worker processes claim.                                            *)
THEOREM CapIsRespected == Spec => []CapRespected
  <1>1. Init => CapRespected
    <2>1. Init => Running = {}
      BY DEF Init, Running
    <2> QED
      BY <2>1, FS_EmptySet DEF CapRespected
  <1> QED
    BY <1>1, CapPreserved, IInvHolds, PTL DEF Spec
-----------------------------------------------------------------------------
(* What a step does to the status of a row that already exists. *)
LEMMA StatusSteps ==
  ASSUME IInv, [Next]_vars, NEW i \in Job, status'[i] # status[i]
  PROVE  \/ status[i] = "absent" /\ status'[i] = "pending"
         \/ status[i] = "pending" /\ status'[i] = "running"
         \/ status[i] = "running" /\ status'[i] \in Terminal \cup {"pending"}
  <1> DEFINE Moves == \/ status[i] = "absent" /\ status'[i] = "pending"
                      \/ status[i] = "pending" /\ status'[i] = "running"
                      \/ status[i] = "running" /\ status'[i] \in Terminal \cup {"pending"}
  <1>1. ASSUME NEW j \in Job, NEW c \in Contact \cup {None},
               NEW e \in Event \cup {None}, NEW now \in BOOLEAN, Enqueue(j, c, e, now)
        PROVE  Moves
    BY <1>1 DEF Enqueue, IInv, TypeOK
  <1>2. ASSUME NEW w \in Worker, NEW S \in SUBSET Job, NEW received \in BOOLEAN,
               Claim(w, S, received)
        PROVE  Moves
    BY <1>2 DEF Claim, Claimable
  <1>3. ASSUME NEW w \in Worker, NEW j \in Job, RunStep(w, j)
        PROVE  Moves
    BY <1>3 DEF RunStep, RunCompletes, RunFails, RunCancels, RunReschedules, RunEndsSilently,
                ReleaseRow, GivenBack, HoldsLease, Terminal, IInv, TypeOK, rowVars
  <1>4. ASSUME NEW w \in Worker, Reap(w) \/ Boot(w)
        PROVE  Moves
    BY <1>4 DEF Reap, Boot, ReapExpired, GiveBackAll, GivenBack, Running, Terminal
  <1>5. ASSUME NEW w \in Worker, BeginShutdown(w) \/ Exit(w) \/ Crash(w)
        PROVE  FALSE
    BY <1>5 DEF BeginShutdown, Exit, Crash, Dies, rowVars
  <1>6. ASSUME NEW j \in Job, BecomeDue(j) \/ LeaseExpires(j)
        PROVE  FALSE
    BY <1>6 DEF BecomeDue, LeaseExpires
  <1>7. ASSUME UNCHANGED vars
        PROVE  FALSE
    BY <1>7 DEF vars, rowVars
  <1> QED
    BY <1>1, <1>2, <1>3, <1>4, <1>5, <1>6, <1>7 DEF Next, ClaimSome

(* A verdict is final: no stale run, retry or reaper moves a settled row,  *)
(* so whatever completeJob commits with it is committed at most once.      *)
THEOREM VerdictsAreFinal == Spec => SettledForGood
  <1>1. IInv /\ [Next]_vars =>
          \A j \in Job : status[j] \in Terminal => status'[j] = status[j]
    BY StatusSteps DEF Terminal
  <1> QED
    BY <1>1, IInvHolds, PTL DEF Spec, SettledForGood

-----------------------------------------------------------------------------
(* The queue implements LaneLeases. *)
LEMMA PhaseCases ==
  ASSUME NEW j \in Job
  PROVE  /\ status[j] = "pending" => Phase(j) = "waiting"
         /\ status[j] = "running" => Phase(j) = "leased"
         /\ status[j] \notin {"pending", "running"} => Phase(j) = status[j]
  BY DEF Phase

(* Contacts of existing rows only change with the insert. *)
LEMMA ContactSteps ==
  ASSUME IInv, [Next]_vars,
         ~ \E j \in Job, c \in Contact \cup {None}, e \in Event \cup {None}, now \in BOOLEAN :
             Enqueue(j, c, e, now)
  PROVE  UNCHANGED contact
  <1>1. ASSUME NEW w \in Worker, NEW j \in Job, RunStep(w, j)
        PROVE  UNCHANGED contact
    BY <1>1 DEF RunStep, RunCompletes, RunFails, RunCancels, RunReschedules, RunEndsSilently,
                rowVars
  <1>2. ASSUME NEW w \in Worker, ClaimSome(w) \/ Reap(w) \/ Boot(w)
        PROVE  UNCHANGED contact
    BY <1>2 DEF ClaimSome, Claim, Reap, Boot, ReapExpired, GiveBackAll
  <1>3. ASSUME NEW w \in Worker, BeginShutdown(w) \/ Exit(w) \/ Crash(w)
        PROVE  UNCHANGED contact
    BY <1>3 DEF BeginShutdown, Exit, Crash, Dies, rowVars
  <1>4. ASSUME NEW j \in Job, BecomeDue(j) \/ LeaseExpires(j)
        PROVE  UNCHANGED contact
    BY <1>4 DEF BecomeDue, LeaseExpires
  <1> QED
    BY <1>1, <1>2, <1>3, <1>4 DEF Next, vars, rowVars
LEMMA PromiseInit == Init => Promise!Init
  <1> SUFFICES ASSUME Init PROVE Promise!Init
    OBVIOUS
  <1>1. \A j \in Job : Phase(j) = "absent"
    BY DEF Init, Phase
  <1> QED
    BY <1>1 DEF Init, Promise!Init

LEMMA PromiseAccept ==
  ASSUME IInv, IInv', NEW j \in Job, NEW c \in Contact \cup {None},
         NEW e \in Event \cup {None}, NEW now \in BOOLEAN, Enqueue(j, c, e, now)
  PROVE  Promise!Accept(j, c)
  <1>1. status[j] = "absent" /\ status' = [status EXCEPT ![j] = "pending"]
    BY DEF Enqueue
  <1>2. Phase(j) = "absent"
    BY <1>1 DEF Phase
  <1>3. \A i \in Job : Phase(i)' = IF i = j THEN "waiting" ELSE Phase(i)
    BY <1>1 DEF Phase, IInv, TypeOK
  <1>4. UNCHANGED alerts /\ contact' = [contact EXCEPT ![j] = c]
    BY DEF Enqueue
  <1> QED
    BY <1>2, <1>3, <1>4 DEF Promise!Accept

LEMMA PromiseGrant ==
  ASSUME IInv, NEW w \in Worker, NEW S \in SUBSET Job, NEW received \in BOOLEAN,
         Claim(w, S, received)
  PROVE  Promise!Grant(S)
  <1>1. S # {} /\ \A j \in S : Phase(j) = "waiting"
    BY DEF Claim, Claimable, Phase
  <1>2. Promise!Leased = Running
    BY DEF Promise!Leased, Running, Phase, IInv, TypeOK, Status, Terminal
  <1>3. \A i \in S, j \in S \cup Running : i # j => Promise!Compatible(i, j)
    BY DEF Claim, Claimable, OnePerLane, Promise!Compatible
  <1>4. /\ Promise!Cardinality(Running) = Cardinality(Running)
        /\ Promise!Cardinality(S) = Cardinality(S)
        /\ Cardinality(Running) + Cardinality(S) <= MaxConcurrency
    <2>1. \A T : Promise!Cardinality(T) = Cardinality(T)
      BY Zenon DEF Promise!Cardinality, Cardinality
    <2> QED
      BY <2>1 DEF Claim, FitsCap
  <1>5. \A j \in Job : Phase(j)' = IF j \in S THEN "leased" ELSE Phase(j)
    BY DEF Claim, Phase
  <1>6. UNCHANGED <<contact, alerts>>
    BY DEF Claim
  <1> QED
    BY <1>1, <1>2, <1>3, <1>4, <1>5, <1>6 DEF Promise!Grant

LEMMA PromiseRelease ==
  ASSUME IInv, IInv', UNCHANGED contact,
         \A j \in Job : status'[j] # status[j] =>
           status[j] = "running" /\ status'[j] \in Terminal \cup {"pending"}
  PROVE  \E out \in [Job -> {"absent", "waiting", "leased"} \cup Promise!Verdict] :
           Promise!Release(out)
  <1>1. \A j \in Job : Phase(j)' \in {"absent", "waiting", "leased"} \cup Promise!Verdict
    BY DEF Phase, IInv, TypeOK, Status, Terminal, Promise!Verdict
  <1>2. \A j \in Job : Phase(j)' # Phase(j) =>
          Phase(j) = "leased" /\ Phase(j)' \in Promise!Verdict \cup {"waiting"}
    BY DEF Phase, Terminal, Promise!Verdict
  <1>3. Promise!Leased = Running
    BY DEF Promise!Leased, Running, Phase, IInv, TypeOK, Status, Terminal
  <1>4. \A j \in Job : alerts'[j] > 0 <=> status'[j] = "dead"
    BY DEF IInv, TypeOK, DeadIsAlerted
  <1>5. \A j \in Job : alerts[j] > 0 <=> status[j] = "dead"
    BY DEF IInv, TypeOK, DeadIsAlerted
  <1>6. \A j \in Job : status'[j] = "dead" <=>
          status[j] = "dead" \/ (j \in Running /\ Phase(j)' = "dead")
    BY DEF Phase, Running, Terminal
  <1>7. {j \in Job : alerts'[j] > 0}
          = {j \in Job : alerts[j] > 0} \cup {j \in Running : Phase(j)' = "dead"}
    BY <1>4, <1>5, <1>6 DEF Running
  <1>8. PICK q : q = [j \in Job |-> Phase(j)']
    OBVIOUS
  <1>9. q \in [Job -> {"absent", "waiting", "leased"} \cup Promise!Verdict]
    BY <1>1, <1>8
  <1>10. \A j \in Job : q[j] # Phase(j) =>
           Phase(j) = "leased" /\ q[j] \in Promise!Verdict \cup {"waiting"}
    BY <1>2, <1>8
  <1>11. {j \in Job : alerts'[j] > 0}
           = {j \in Job : alerts[j] > 0} \cup {j \in Running : q[j] = "dead"}
    BY <1>7, <1>8 DEF Running
  <1>12. Promise!Release(q)
    BY <1>3, <1>8, <1>10, <1>11 DEF Promise!Release
  <1> QED
    BY <1>9, <1>12

LEMMA PromiseStep == IInv /\ IInv' /\ [Next]_vars => Promise!Next
  <1> SUFFICES ASSUME IInv, IInv', [Next]_vars PROVE Promise!Next
    OBVIOUS
  <1>1. CASE \E j \in Job, c \in Contact \cup {None}, e \in Event \cup {None}, now \in BOOLEAN :
               Enqueue(j, c, e, now)
    BY <1>1, PromiseAccept DEF Promise!Next
  <1>2. CASE \E w \in Worker, S \in SUBSET Job, received \in BOOLEAN : Claim(w, S, received)
    BY <1>2, PromiseGrant DEF Promise!Next
  <1>3. ASSUME ~ \E j \in Job, c \in Contact \cup {None}, e \in Event \cup {None}, now \in BOOLEAN :
                 Enqueue(j, c, e, now),
               ~ \E w \in Worker, S \in SUBSET Job, received \in BOOLEAN : Claim(w, S, received)
        PROVE  Promise!Next
    <2>1. \A j \in Job : status'[j] # status[j] =>
            status[j] = "running" /\ status'[j] \in Terminal \cup {"pending"}
      <3>1. ASSUME NEW w \in Worker, NEW j \in Job, NEW i \in Job, RunStep(w, j),
                   status'[i] # status[i]
            PROVE  status[i] = "running"
        BY <3>1 DEF RunStep, RunCompletes, RunFails, RunCancels, RunReschedules,
                    RunEndsSilently, ReleaseRow, HoldsLease, IInv, TypeOK, rowVars
      <3>2. ASSUME NEW w \in Worker, NEW i \in Job, Reap(w) \/ Boot(w), status'[i] # status[i]
            PROVE  status[i] = "running"
        BY <3>2 DEF Reap, Boot, ReapExpired, GiveBackAll, Running
      <3>3. ASSUME NEW w \in Worker, BeginShutdown(w) \/ Exit(w) \/ Crash(w)
            PROVE  UNCHANGED status
        BY <3>3 DEF BeginShutdown, Exit, Crash, Dies, rowVars
      <3>4. ASSUME NEW j \in Job, BecomeDue(j) \/ LeaseExpires(j)
            PROVE  UNCHANGED status
        BY <3>4 DEF BecomeDue, LeaseExpires
      <3>5. \A i \in Job : status'[i] # status[i] => status[i] = "running"
        BY <1>3, <3>1, <3>2, <3>3, <3>4 DEF Next, ClaimSome, vars, rowVars
      <3> QED
        BY <3>5, StatusSteps
    <2>2. UNCHANGED contact
      BY <1>3, ContactSteps
    <2> QED
      BY <2>1, <2>2, PromiseRelease DEF Promise!Next
  <1> QED
    BY <1>1, <1>2, <1>3

(* Every behaviour of the queue is one the abstract lane leases allow: the *)
(* SQL, the leases, the late handlers and the crashes are an               *)
(* implementation of them.                                                 *)
THEOREM QueueImplementsPromise == Spec => ImplementsPromise
  BY PromiseInit, PromiseStep, IInvHolds, PTL DEF Spec, Promise!Spec, ImplementsPromise

(* Which step may end a lease that has not expired. *)
LEMMA LeaseEnds ==
  ASSUME IInv, NEW j \in Job, status[j] = "running", j \notin expired,
         [Next]_vars, status'[j] # "running"
  PROVE  \E w \in Worker : HoldsLease(w, j) /\ RunsIn(w, j)' = RunsIn(w, j) - 1
  <1>1. ASSUME NEW w \in Worker, EndRunReleasing(w, j)
        PROVE  RunsIn(w, j)' = RunsIn(w, j) - 1
    <2>1. staleRuns'[j][w] = RunsIn(w, j) - 1
      BY <1>1 DEF IInv, TypeOK, EndRunReleasing
    <2>2. j \notin live'
      BY <1>1 DEF EndRunReleasing
    <2>3. RunsIn(w, j)' = staleRuns'[j][w] + 0
      BY <2>2 DEF RunsIn
    <2> QED
      BY <2>1, <2>3, RunsInNat DEF IInv
  <1>2. ASSUME NEW w \in Worker, NEW i \in Job, RunStep(w, i)
        PROVE  HoldsLease(w, j) /\ RunsIn(w, j)' = RunsIn(w, j) - 1
    <2>1. i = j /\ HoldsLease(w, j) /\ EndRunReleasing(w, j)
      BY <1>2 DEF RunStep, RunCompletes, RunFails, RunCancels, RunReschedules,
                  RunEndsSilently, ReleaseRow, rowVars, IInv, TypeOK
    <2> QED
      BY <1>1, <2>1
  <1>3. ASSUME NEW w \in Worker, ClaimSome(w) \/ Reap(w) \/ Boot(w)
        PROVE  FALSE
    BY <1>3 DEF ClaimSome, Claim, Reap, Boot, ReapExpired, GiveBackAll
  <1>4. ASSUME NEW w \in Worker, BeginShutdown(w) \/ Exit(w) \/ Crash(w)
        PROVE  FALSE
    BY <1>4 DEF BeginShutdown, Exit, Crash, Dies, rowVars
  <1>5. ASSUME NEW i \in Job, BecomeDue(i) \/ LeaseExpires(i)
        PROVE  FALSE
    BY <1>5 DEF BecomeDue, LeaseExpires
  <1>6. ASSUME NEW i \in Job, NEW c \in Contact \cup {None},
               NEW e \in Event \cup {None}, NEW now \in BOOLEAN, Enqueue(i, c, e, now)
        PROVE  FALSE
    BY <1>6 DEF Enqueue, IInv, TypeOK
  <1>7. ~ UNCHANGED vars
    BY DEF vars, rowVars
  <1> QED
    BY <1>2, <1>3, <1>4, <1>5, <1>6, <1>7 DEF Next

(* While its visibility timeout has not passed, a lease is ended only by a *)
(* handler of the process that holds it, for any number of processes.      *)
THEOREM UnexpiredLeasesAreSafe == Spec => UnexpiredLeaseIsSafe
  <1>1. IInv /\ [Next]_vars =>
          [\A j \in Job :
             status[j] = "running" /\ j \notin expired /\ status'[j] # "running"
               => \E w \in Worker : HoldsLease(w, j) /\ RunsIn(w, j)' = RunsIn(w, j) - 1]_vars
    BY LeaseEnds
  <1> QED
    BY <1>1, IInvHolds, PTL DEF Spec, UnexpiredLeaseIsSafe

-----------------------------------------------------------------------------
(* A handler that lost its lease, or is about to, outlived it: the reaper  *)
(* takes a row from a live handler only after the visibility timeout.      *)
LateRunsOutlived ==
  /\ \A j \in Job, w \in Worker : staleRuns[j][w] > 0 => j \in outlived
  /\ live \cap expired \subseteq outlived

LEMMA OutlivedRunStep ==
  ASSUME IInv, LateRunsOutlived, NEW w \in Worker, NEW j \in Job, RunStep(w, j)
  PROVE  LateRunsOutlived'
  <1>1. ASSUME NEW k \in RunKind, InFlight(w, j, k), EndRunReleasing(w, j),
               expired' = expired \ {j}, UNCHANGED outlived
        PROVE  LateRunsOutlived'
    <2>1. ASSUME NEW i \in Job, NEW v \in Worker, staleRuns'[i][v] > 0
          PROVE  i \in outlived
      <3>1. staleRuns[i][v] > 0
        BY <1>1, <2>1, EndRunPointwise
           DEF IInv, TypeOK, RunsIn, InFlight, RunKind
      <3> QED
        BY <3>1 DEF LateRunsOutlived
    <2>2. live' \cap expired' \subseteq outlived
      BY <1>1 DEF EndRunReleasing, LateRunsOutlived
    <2> QED
      BY <1>1, <2>1, <2>2 DEF LateRunsOutlived
  <1>2. PICK k \in RunKind : \/ RunCompletes(w, j, k) \/ RunFails(w, j, k)
                             \/ RunCancels(w, j, k) \/ RunReschedules(w, j, k)
                             \/ RunEndsSilently(w, j, k)
    BY DEF RunStep
  <1>3. CASE RunCompletes(w, j, k)
    BY <1>1, <1>3 DEF RunCompletes, ReleaseRow
  <1>4. CASE RunFails(w, j, k)
    BY <1>1, <1>4 DEF RunFails, ReleaseRow
  <1>5. CASE RunCancels(w, j, k)
    BY <1>1, <1>5 DEF RunCancels, ReleaseRow
  <1>6. CASE RunReschedules(w, j, k)
    BY <1>1, <1>6 DEF RunReschedules, ReleaseRow, history
  <1>7. CASE RunEndsSilently(w, j, k)
    <2>1. CASE k = "live"
      BY <1>7, <2>1 DEF RunEndsSilently, rowVars, history, LateRunsOutlived
    <2>2. CASE k = "stale"
      <3>1. UNCHANGED <<live, expired, outlived>>
        BY <1>7, <2>2 DEF RunEndsSilently, rowVars, history
      <3>2. ASSUME NEW i \in Job, NEW v \in Worker
            PROVE  staleRuns'[i][v] \in {staleRuns[i][v], staleRuns[i][v] - 1}
        BY <1>7, <2>2 DEF RunEndsSilently, IInv, TypeOK
      <3>3. ASSUME NEW i \in Job, NEW v \in Worker
            PROVE  staleRuns[i][v] \in Nat
        BY DEF IInv, TypeOK
      <3> QED
        BY <3>1, <3>2, <3>3 DEF LateRunsOutlived
    <2> QED
      BY <2>1, <2>2 DEF RunKind
  <1> QED
    BY <1>2, <1>3, <1>4, <1>5, <1>6, <1>7

LEMMA OutlivedGiveBack ==
  ASSUME IInv, LateRunsOutlived, ReapExpired
  PROVE  LateRunsOutlived'
  <1> DEFINE R == Running \cap expired
  <1>1. UNCHANGED outlived /\ live' \subseteq live /\ expired' \subseteq expired
    BY DEF ReapExpired, GiveBackAll, history
  <1>2. ASSUME NEW i \in Job, NEW v \in Worker, staleRuns'[i][v] > 0
        PROVE  i \in outlived
    <2>1. staleRuns'[i][v] = IF i \in R THEN RunsIn(v, i) ELSE staleRuns[i][v]
      BY DEF ReapExpired, GiveBackAll
    <2>2. staleRuns[i][v] > 0 \/ i \in live \cap expired
      BY <1>2, <2>1 DEF RunsIn, IInv, TypeOK
    <2> QED
      BY <2>2 DEF LateRunsOutlived
  <1> QED
    BY <1>1, <1>2 DEF LateRunsOutlived

LEMMA OutlivedDies ==
  ASSUME IInv, LateRunsOutlived, NEW w \in Worker, Dies(w)
  PROVE  LateRunsOutlived'
  <1>1. ASSUME NEW i \in Job, NEW v \in Worker, staleRuns'[i][v] > 0
        PROVE  i \in outlived
    BY <1>1 DEF Dies, LateRunsOutlived, IInv, TypeOK
  <1> QED
    BY <1>1 DEF Dies, rowVars, history, LateRunsOutlived

LEMMA LateRunsOutlivedPreserved ==
  ASSUME IInv, LateRunsOutlived, [Next]_vars
  PROVE  LateRunsOutlived'
  <1>1. ASSUME NEW j \in Job, NEW c \in Contact \cup {None},
               NEW e \in Event \cup {None}, NEW now \in BOOLEAN, Enqueue(j, c, e, now)
        PROVE  LateRunsOutlived'
    BY <1>1 DEF Enqueue, runVars, history, LateRunsOutlived
  <1>2. ASSUME NEW w \in Worker, ClaimSome(w)
        PROVE  LateRunsOutlived'
    BY <1>2 DEF ClaimSome, Claim, history, LateRunsOutlived
  <1>3. ASSUME NEW w \in Worker, NEW j \in Job, RunStep(w, j)
        PROVE  LateRunsOutlived'
    BY <1>3, OutlivedRunStep
  <1>4. ASSUME NEW w \in Worker, Reap(w) \/ Boot(w)
        PROVE  LateRunsOutlived'
    BY <1>4, OutlivedGiveBack DEF Reap, Boot
  <1>5. ASSUME NEW w \in Worker, BeginShutdown(w)
        PROVE  LateRunsOutlived'
    BY <1>5 DEF BeginShutdown, rowVars, runVars, history, LateRunsOutlived
  <1>6. ASSUME NEW w \in Worker, Exit(w) \/ Crash(w)
        PROVE  LateRunsOutlived'
    BY <1>6, OutlivedDies DEF Exit, Crash
  <1>7. ASSUME NEW j \in Job, BecomeDue(j) \/ LeaseExpires(j)
        PROVE  LateRunsOutlived'
    BY <1>7 DEF BecomeDue, LeaseExpires, runVars, history, LateRunsOutlived
  <1>8. ASSUME UNCHANGED vars PROVE LateRunsOutlived'
    BY <1>8 DEF vars, rowVars, runVars, history, LateRunsOutlived
  <1> QED
    BY <1>1, <1>2, <1>3, <1>4, <1>5, <1>6, <1>7, <1>8 DEF Next

LEMMA LateRunsOutlivedHolds == Spec => []LateRunsOutlived
  <1>1. Init => LateRunsOutlived
    BY DEF Init, LateRunsOutlived
  <1>2. IInv /\ LateRunsOutlived /\ [Next]_vars => LateRunsOutlived'
    BY LateRunsOutlivedPreserved
  <1> QED
    BY <1>1, <1>2, IInvHolds, PTL DEF Spec

(* At most one handler works on a contact at a time, in all processes      *)
(* together, unless one of its jobs has had a handler slower than the      *)
(* visibility timeout: the lane serializes handlers, not only rows.        *)
THEOREM HandlersAreSerialized == Spec => []HandlersSerialized
  <1>1. IInv /\ LateRunsOutlived => HandlersSerialized
    <2> SUFFICES ASSUME IInv, LateRunsOutlived, NEW i \in Job, NEW j \in Job,
                        NEW v \in Worker, NEW w \in Worker,
                        contact[i] # None, contact[i] = contact[j],
                        RunsIn(v, i) > 0, RunsIn(w, j) > 0,
                        i \notin outlived, j \notin outlived
                 PROVE  i = j /\ v = w /\ RunsIn(w, j) = 1
      BY DEF HandlersSerialized
    <2>1. \A x \in Worker : staleRuns[i][x] = 0 /\ staleRuns[j][x] = 0
      BY DEF LateRunsOutlived, IInv, TypeOK
    <2>2. i \in live /\ lockedBy[i] = v /\ j \in live /\ lockedBy[j] = w
      BY <2>1 DEF RunsIn
    <2>3. i \in Running /\ j \in Running
      BY <2>2 DEF IInv, LeaseConsistent, LiveRunHoldsLease, Running
    <2>4. i = j
      BY <2>3 DEF IInv, LaneExclusive
    <2> QED
      BY <2>1, <2>2, <2>4 DEF RunsIn
  <1> QED
    BY <1>1, IInvHolds, LateRunsOutlivedHolds, PTL

-----------------------------------------------------------------------------
(* Handlers are counted as the elements of a finite set, so that starting  *)
(* one and ending one are one element more and one less.                   *)
Counted ==
  \A j \in Job : IsFiniteSet(Handlers(j)) /\ Cardinality(Handlers(j)) <= attempts[j]

LEMMA HandlerOf ==
  ASSUME TypeOK, NEW j \in Job, NEW h
  PROVE  h \in Handlers(j) <=>
           \E w \in Worker : \E n \in Nat : h = <<w, n>> /\ 1 <= n /\ n <= RunsIn(w, j)
  <1>1. \A w \in Worker : RunsIn(w, j) \in Nat
    BY RunsInNat
  <1> QED
    BY <1>1 DEF Handlers

(* Handlers that end, or that only become stale, leave the count below the *)
(* attempts of the row, which nothing but a reschedule lowers.             *)
LEMMA NoMoreHandlers ==
  ASSUME TypeOK, TypeOK', Counted, NEW j \in Job,
         \A w \in Worker : RunsIn(w, j)' <= RunsIn(w, j),
         attempts'[j] >= attempts[j]
  PROVE  IsFiniteSet(Handlers(j)') /\ Cardinality(Handlers(j)') <= attempts'[j]
  <1>1. \A w \in Worker : RunsIn(w, j) \in Nat /\ RunsIn(w, j)' \in Nat
    BY DEF TypeOK, RunsIn
  <1>2. Handlers(j)' \in SUBSET Handlers(j)
    BY <1>1 DEF Handlers
  <1>3. /\ IsFiniteSet(Handlers(j)') /\ Cardinality(Handlers(j)') <= Cardinality(Handlers(j))
        /\ Cardinality(Handlers(j)) \in Nat /\ Cardinality(Handlers(j)') \in Nat
    BY <1>2, FS_Subset, FS_CardinalityType DEF Counted
  <1>4. attempts[j] \in Nat /\ attempts'[j] \in Nat
    BY DEF TypeOK
  <1> QED
    BY <1>3, <1>4 DEF Counted

(* A claim that reaches its process starts one handler and counts it. *)
LEMMA OneMoreHandler ==
  ASSUME TypeOK, TypeOK', Counted, NEW j \in Job, NEW w \in Worker,
         RunsIn(w, j)' = RunsIn(w, j) + 1,
         \A v \in Worker : v # w => RunsIn(v, j)' = RunsIn(v, j),
         attempts'[j] = attempts[j] + 1
  PROVE  IsFiniteSet(Handlers(j)') /\ Cardinality(Handlers(j)') <= attempts'[j]
  <1>1. \A v \in Worker : RunsIn(v, j) \in Nat
    BY RunsInNat
  <1> DEFINE h == <<w, RunsIn(w, j) + 1>>
  <1>2. Handlers(j)' = Handlers(j) \cup {h}
    BY <1>1 DEF Handlers
  <1>3. /\ IsFiniteSet(Handlers(j)') /\ Cardinality(Handlers(j)') <= Cardinality(Handlers(j)) + 1
        /\ Cardinality(Handlers(j)) \in Nat /\ Cardinality(Handlers(j)') \in Nat
    <2>1. IsFiniteSet(Handlers(j)) /\ Cardinality(Handlers(j)) \in Nat
      BY FS_CardinalityType DEF Counted
    <2> HIDE DEF h
    <2>2. /\ IsFiniteSet(Handlers(j) \cup {h})
          /\ Cardinality(Handlers(j) \cup {h})
               = IF h \in Handlers(j) THEN Cardinality(Handlers(j)) ELSE Cardinality(Handlers(j)) + 1
      BY <2>1, FS_AddElement
    <2> QED
      BY <1>2, <2>1, <2>2
  <1>4. attempts[j] \in Nat
    BY DEF TypeOK
  <1> QED
    BY <1>3, <1>4 DEF Counted

(* A handler that reschedules its row ends, which pays for the attempt. *)
LEMMA OneHandlerLess ==
  ASSUME TypeOK, TypeOK', Counted, NEW j \in Job, NEW w \in Worker,
         RunsIn(w, j) > 0, RunsIn(w, j)' = RunsIn(w, j) - 1,
         \A v \in Worker : v # w => RunsIn(v, j)' = RunsIn(v, j),
         attempts'[j] >= attempts[j] - 1
  PROVE  IsFiniteSet(Handlers(j)') /\ Cardinality(Handlers(j)') <= attempts'[j]
  <1>1. \A v \in Worker : RunsIn(v, j) \in Nat
    BY RunsInNat
  <1> DEFINE h == <<w, RunsIn(w, j)>>
  <1>2. Handlers(j)' = Handlers(j) \ {h} /\ h \in Handlers(j)
    BY <1>1 DEF Handlers
  <1>3. /\ IsFiniteSet(Handlers(j)') /\ Cardinality(Handlers(j)') = Cardinality(Handlers(j)) - 1
        /\ Cardinality(Handlers(j)) \in Nat
    BY <1>2, FS_RemoveElement, FS_CardinalityType DEF Counted
  <1>4. attempts[j] \in Nat /\ attempts'[j] \in Nat
    BY DEF TypeOK
  <1> QED
    BY <1>3, <1>4 DEF Counted

LEMMA ClaimCounted ==
  ASSUME IInv, TypeOK', Counted, NEW w \in Worker, NEW S \in SUBSET Job,
         NEW received \in BOOLEAN, Claim(w, S, received)
  PROVE  Counted'
  <1> SUFFICES ASSUME NEW j \in Job
               PROVE  IsFiniteSet(Handlers(j)') /\ Cardinality(Handlers(j)') <= attempts'[j]
    BY DEF Counted
  <1>1. TypeOK /\ staleRuns' = staleRuns
    BY DEF IInv, Claim
  <1>2. CASE j \in S /\ received
    <2>1. j \notin live /\ j \in live' /\ lockedBy'[j] = w /\ attempts'[j] = attempts[j] + 1
      BY <1>2 DEF Claim, Claimable, IInv, LeaseConsistent, LiveRunHoldsLease, TypeOK
    <2>2. \A v \in Worker : RunsIn(v, j)' = RunsIn(v, j) + (IF v = w THEN 1 ELSE 0)
      BY <1>1, <2>1 DEF RunsIn, TypeOK
    <2>3. RunsIn(w, j)' = RunsIn(w, j) + 1
      BY <2>2
    <2>4. \A v \in Worker : v # w => RunsIn(v, j)' = RunsIn(v, j)
      BY <1>1, <2>2, RunsInNat
    <2> QED
      BY <1>1, <2>1, <2>3, <2>4, OneMoreHandler
  <1>3. CASE ~(j \in S /\ received)
    <2>1. (j \in live' <=> j \in live) /\ attempts'[j] >= attempts[j]
      BY <1>3 DEF Claim, IInv, TypeOK
    <2>2. j \in live => lockedBy'[j] = lockedBy[j]
      BY DEF Claim, Claimable, IInv, LeaseConsistent, LiveRunHoldsLease, TypeOK
    <2>3. \A v \in Worker : RunsIn(v, j)' = RunsIn(v, j) /\ RunsIn(v, j) \in Nat
      BY <1>1, <2>1, <2>2, RunsInNat DEF RunsIn
    <2> QED
      BY <1>1, <2>1, <2>3, NoMoreHandlers
  <1> QED
    BY <1>2, <1>3

LEMMA RunStepCounted ==
  ASSUME IInv, TypeOK', Counted, NEW w \in Worker, NEW j \in Job, RunStep(w, j)
  PROVE  Counted'
  <1>1. TypeOK /\ \A i \in Job, v \in Worker : RunsIn(v, i) \in Nat
    BY RunsInNat DEF IInv
  <1>2. PICK k \in RunKind : \/ RunCompletes(w, j, k) \/ RunFails(w, j, k)
                             \/ RunCancels(w, j, k) \/ RunReschedules(w, j, k)
                             \/ RunEndsSilently(w, j, k)
    BY DEF RunStep
  <1>3. RunsIn(w, j) > 0
    <2>1. InFlight(w, j, k)
      BY <1>2 DEF RunCompletes, RunFails, RunCancels, RunReschedules, RunEndsSilently
    <2> QED
      BY <1>1, <2>1, InFlightCounts
  <1>4. CASE EndRunReleasing(w, j) /\ HoldsLease(w, j) /\ ~RunEndsSilently(w, j, k)
    <2>1. \A i \in Job, v \in Worker :
            staleRuns'[i][v] = IF i = j /\ v = w THEN RunsIn(w, j) - 1 ELSE staleRuns[i][v]
      BY <1>1, <1>4 DEF EndRunReleasing, TypeOK
    <2>2. live' = live \ {j} /\ \A i \in Job : i # j => lockedBy'[i] = lockedBy[i]
      BY <1>1, <1>2, <1>4 DEF EndRunReleasing, RunCompletes, RunFails, RunCancels,
                              RunReschedules, ReleaseRow, TypeOK
    <2>3. RunsIn(w, j)' = RunsIn(w, j) - 1
      BY <1>1, <2>1, <2>2 DEF RunsIn, TypeOK
    <2>4. \A v \in Worker : v # w => RunsIn(v, j)' = RunsIn(v, j)
      BY <1>1, <1>4, <2>1, <2>2 DEF RunsIn, HoldsLease, TypeOK
    <2>5. \A i \in Job, v \in Worker : i # j => RunsIn(v, i)' = RunsIn(v, i)
      BY <2>1, <2>2 DEF RunsIn
    <2>6. attempts'[j] >= attempts[j] - 1 /\ \A i \in Job : i # j => attempts'[i] = attempts[i]
      BY <1>1, <1>2, <1>4 DEF RunCompletes, RunFails, RunCancels, RunReschedules, TypeOK
    <2>7. ASSUME NEW i \in Job
          PROVE  IsFiniteSet(Handlers(i)') /\ Cardinality(Handlers(i)') <= attempts'[i]
      <3>1. CASE i = j
        BY <1>1, <1>3, <2>3, <2>4, <2>6, <3>1, OneHandlerLess
      <3>2. CASE i # j
        <4>1. attempts'[i] >= attempts[i] /\ \A v \in Worker : RunsIn(v, i)' <= RunsIn(v, i)
          BY <1>1, <2>5, <2>6, <3>2 DEF TypeOK
        <4> QED
          BY <1>1, <4>1, NoMoreHandlers
      <3> QED
        BY <3>1, <3>2
    <2> QED
      BY <2>7 DEF Counted
  <1>5. CASE RunEndsSilently(w, j, k)
    <2>1. UNCHANGED <<attempts, lockedBy>> /\ live' \subseteq live
      BY <1>5 DEF RunEndsSilently, rowVars
    <2>2. \A i \in Job, v \in Worker : staleRuns'[i][v] <= staleRuns[i][v]
      <3>1. CASE k = "live"
        BY <1>1, <1>5, <3>1 DEF RunEndsSilently, TypeOK
      <3>2. CASE k = "stale"
        <4>1. \A i \in Job, v \in Worker :
                staleRuns'[i][v] = IF i = j /\ v = w THEN staleRuns[i][v] - 1 ELSE staleRuns[i][v]
          BY <1>1, <1>5, <3>2 DEF RunEndsSilently, TypeOK
        <4>2. \A i \in Job, v \in Worker : staleRuns[i][v] \in Nat
          BY <1>1 DEF TypeOK
        <4> QED
          BY <4>1, <4>2
      <3> QED
        BY <3>1, <3>2 DEF RunKind
    <2>3. \A i \in Job, v \in Worker : staleRuns'[i][v] \in Nat /\ staleRuns[i][v] \in Nat
      BY <1>1 DEF TypeOK
    <2>4. \A i \in Job, v \in Worker : RunsIn(v, i)' <= RunsIn(v, i)
      BY <2>1, <2>2, <2>3 DEF RunsIn
    <2>5. \A i \in Job : attempts'[i] >= attempts[i]
      BY <1>1, <2>1 DEF TypeOK
    <2> QED
      BY <1>1, <2>4, <2>5, NoMoreHandlers DEF Counted
  <1> QED
    BY <1>2, <1>4, <1>5 DEF RunCompletes, RunFails, RunCancels, RunReschedules

LEMMA GiveBackCounted ==
  ASSUME IInv, TypeOK', Counted, NEW R \in SUBSET Job, GiveBackAll(R)
  PROVE  Counted'
  <1>1. TypeOK /\ \A i \in Job, v \in Worker : RunsIn(v, i) \in Nat
    BY RunsInNat DEF IInv
  <1>2. \A i \in Job, v \in Worker : RunsIn(v, i)' = RunsIn(v, i)
    BY <1>1 DEF GiveBackAll, RunsIn
  <1>3. \A i \in Job : attempts'[i] >= attempts[i]
    BY <1>1 DEF GiveBackAll, TypeOK
  <1>4. \A i \in Job, v \in Worker : RunsIn(v, i)' <= RunsIn(v, i)
    BY <1>1, <1>2
  <1> QED
    BY <1>1, <1>3, <1>4, NoMoreHandlers DEF Counted

LEMMA DiesCounted ==
  ASSUME IInv, TypeOK', Counted, NEW w \in Worker, Dies(w)
  PROVE  Counted'
  <1>1. TypeOK
    BY DEF IInv
  <1>2. \A i \in Job, v \in Worker : staleRuns'[i][v] <= staleRuns[i][v] /\ staleRuns[i][v] \in Nat
                                       /\ staleRuns'[i][v] \in Nat
    BY <1>1 DEF Dies, TypeOK
  <1>3. live' \subseteq live /\ UNCHANGED <<lockedBy, attempts>>
    BY DEF Dies, rowVars
  <1>4. \A i \in Job, v \in Worker : RunsIn(v, i)' <= RunsIn(v, i)
    BY <1>2, <1>3 DEF RunsIn
  <1>5. \A i \in Job : attempts'[i] >= attempts[i]
    BY <1>1, <1>3 DEF TypeOK
  <1> QED
    BY <1>1, <1>4, <1>5, NoMoreHandlers DEF Counted

LEMMA CountedPreserved == ASSUME IInv, TypeOK', Counted, [Next]_vars PROVE Counted'
  <1>1. ASSUME UNCHANGED <<attempts, lockedBy, runVars>> PROVE Counted'
    BY <1>1 DEF Counted, Handlers, RunsIn, runVars
  <1>2. ASSUME NEW j \in Job, NEW c \in Contact \cup {None},
               NEW e \in Event \cup {None}, NEW now \in BOOLEAN, Enqueue(j, c, e, now)
        PROVE  Counted'
    BY <1>1, <1>2 DEF Enqueue
  <1>3. ASSUME NEW w \in Worker, ClaimSome(w) PROVE Counted'
    BY <1>3, ClaimCounted DEF ClaimSome
  <1>4. ASSUME NEW w \in Worker, NEW j \in Job, RunStep(w, j) PROVE Counted'
    BY <1>4, RunStepCounted
  <1>5. ASSUME NEW w \in Worker, Reap(w) \/ Boot(w) PROVE Counted'
    BY <1>5, GiveBackCounted DEF Reap, Boot, ReapExpired, Running
  <1>6. ASSUME NEW w \in Worker, Exit(w) \/ Crash(w) PROVE Counted'
    BY <1>6, DiesCounted DEF Exit, Crash
  <1>7. ASSUME NEW w \in Worker, BeginShutdown(w) PROVE Counted'
    BY <1>1, <1>7 DEF BeginShutdown, rowVars
  <1>8. ASSUME NEW j \in Job, BecomeDue(j) \/ LeaseExpires(j) PROVE Counted'
    BY <1>1, <1>8 DEF BecomeDue, LeaseExpires
  <1>9. ASSUME UNCHANGED vars PROVE Counted'
    BY <1>1, <1>9 DEF vars, rowVars
  <1> QED
    BY <1>2, <1>3, <1>4, <1>5, <1>6, <1>7, <1>8, <1>9 DEF Next

(* However many leases expire under slow handlers and whatever is          *)
(* rescheduled: one job never has more handlers at work, in all processes  *)
(* together, than attempts counted in its row, and so max_attempts.        *)
THEOREM RunsAreWithinAttempts == Spec => []RunsWithinAttempts
  <1>1. Init => Counted
    <2> SUFFICES ASSUME Init, NEW j \in Job
                 PROVE  IsFiniteSet(Handlers(j)) /\ Cardinality(Handlers(j)) <= attempts[j]
      BY DEF Counted
    <2>1. \A w \in Worker : RunsIn(w, j) = 0
      BY DEF Init, RunsIn
    <2>2. Handlers(j) = {}
      BY <2>1 DEF Handlers
    <2> QED
      BY <2>2, FS_EmptySet DEF Init
  <1>2. IInv /\ IInv' /\ Counted /\ [Next]_vars => Counted'
    BY CountedPreserved DEF IInv
  <1>3. Counted => RunsWithinAttempts
    BY DEF Counted, RunsWithinAttempts
  <1> QED
    BY <1>1, <1>2, <1>3, IInvHolds, PTL DEF Spec
=============================================================================
