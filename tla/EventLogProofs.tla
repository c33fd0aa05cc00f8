--------------------------- MODULE EventLogProofs ---------------------------
(***************************************************************************)
(* Proofs about EventLog: overlapping drains never share an event, a       *)
(* repeated delivery has a cause, and the drains implement EventPromise,   *)
(* for any number of events, consumers, drains and faults.                 *)
(***************************************************************************)
EXTENDS EventLog, FiniteSetTheorems, TLAPS

Row == [status : {"absent", "pending", "processing", "done", "dead"},
        consumedBy : SUBSET Consumer, attempts : 0..MaxAttempts, due : BOOLEAN]

(* A drain that works on an event is the only one, and it claimed it. *)
Held ==
  /\ \A d \in Drain : run[d] # Free =>
       row[run[d].event].status = "processing" /\ run[d].event \notin lost
  /\ \A c, d \in Drain : run[c] # Free /\ run[c].event = run[d].event => c = d
  /\ \A e \in Event : row[e].status = "processing" /\ e \notin lost => \E d \in Drain : run[d].event = e
  /\ \A e \in lost : row[e].status = "processing"

(* What rows, snapshots and runs say of the answers so far is true. *)
RowsTrue ==
  \A e \in Event :
    /\ row[e].consumedBy \subseteq answered[e] /\ answered[e] \subseteq Handles[e]
    /\ row[e].attempts <= failures[e]
    /\ row[e].status \in {"absent", "pending", "processing"} => row[e].attempts < MaxAttempts
    /\ row[e].status = "absent" => answered[e] = {}
SnapshotsTrue ==
  \A d \in Drain : \A s \in batch[d] :
    /\ s.consumedBy \subseteq answered[s.event] /\ s.attempts <= failures[s.event]
    /\ row[s.event].status # "absent"
RunTrue(r, A, f) ==
  /\ r.consumedBy \cup r.ok \subseteq A /\ r.left \subseteq Handles[r.event]
  /\ r.attempts <= f
  /\ r.failed = TRUE => r.attempts + 1 <= f
  /\ r.failed # TRUE /\ r.retry # TRUE => Handles[r.event] \subseteq r.consumedBy \cup r.ok \cup r.left
RunsTrue ==
  \A d \in Drain : run[d] # Free => RunTrue(run[d], answered[run[d].event], failures[run[d].event])

(* Until a stale claim, consumed_by names everybody that answered. *)
Fresh ==
  /\ \A e \in Event \ stale : row[e].status = "pending" => answered[e] \subseteq row[e].consumedBy
  /\ \A d \in Drain : run[d] # Free /\ run[d].event \notin stale =>
       run[d].left \cap answered[run[d].event] = {} /\ answered[run[d].event] \subseteq run[d].consumedBy \cup run[d].ok
  /\ repeated = {}

IInv == TypeOK /\ Held /\ RowsTrue /\ SnapshotsTrue /\ RunsTrue /\ Fresh

-----------------------------------------------------------------------------
(* An idle drain names no event. *)
LEMMA FreeIsNone == \A r \in Run : r # Free /\ r.event # None
  <1> SUFFICES ASSUME NEW r \in Run PROVE r # Free /\ r.event # None
    OBVIOUS
  <1>1. r.event \in Event
    BY DEF Run
  <1>2. Free.event = None
    BY DEF Free
  <1> QED
    BY <1>1, <1>2, NoneAssumption

(* The initial states satisfy the invariant. *)
LEMMA InitInv == Init => IInv
  <1> SUFFICES ASSUME Init PROVE IInv
    OBVIOUS
  <1> USE DEF Init
  <1>0. MaxAttempts \in Nat /\ MaxRetries \in Nat /\ MaxFaults \in Nat
    BY BoundsAssumption
  <1>1. TypeOK
    <2>1. row \in [Event -> Row]
      BY <1>0 DEF Row
    <2> QED
      BY <2>1, <1>0 DEF TypeOK, Row
  <1>2. Held
    BY DEF Held
  <1>3. RowsTrue
    BY <1>0, BoundsAssumption DEF RowsTrue
  <1>4. SnapshotsTrue
    BY DEF SnapshotsTrue
  <1>5. RunsTrue
    BY DEF RunsTrue
  <1>6. Fresh
    BY DEF Fresh
  <1> QED
    BY <1>1, <1>2, <1>3, <1>4, <1>5, <1>6 DEF IInv

-----------------------------------------------------------------------------
(* Emit: the event is new, so no drain has read it. *)
LEMMA EmitInv == ASSUME IInv, NEW e \in Event, Emit(e) PROVE IInv'
  <1> USE DEF Emit, history
  <1>1. TypeOK /\ Held /\ RowsTrue /\ SnapshotsTrue /\ RunsTrue /\ Fresh
    BY DEF IInv
  <1>2. row \in [Event -> Row] /\ created \in [Event -> Nat]
    BY <1>1 DEF TypeOK, Row
  <1>3. row' = [row EXCEPT ![e] = [row[e] EXCEPT !.status = "pending"]]
    OBVIOUS
  <1>4. [row[e] EXCEPT !.status = "pending"] \in Row
    BY <1>2 DEF Row
  <1>5. row' \in [Event -> Row]
    BY <1>2, <1>3, <1>4
  <1>6. \A x \in Event : x # e => row'[x] = row[x]
    BY <1>2
  <1>7. row'[e].status = "pending" /\ row'[e].consumedBy = row[e].consumedBy /\ row'[e].attempts = row[e].attempts
    BY <1>2, <1>3 DEF Row
  <1>8. created' \in [Event -> Nat]
    <2>1. IsFiniteSet({x \in Event : row[x].status # "absent"})
      BY EventAssumption, FS_Subset
    <2>2. Cardinality({x \in Event : row[x].status # "absent"}) \in Nat
      BY <2>1, FS_CardinalityType
    <2> QED
      BY <1>2, <2>2
  <1>9. TypeOK'
    BY <1>1, <1>5, <1>8 DEF TypeOK, Row
  <1>10. Held'
    <2>1. \A d \in Drain : run[d] # Free => run[d].event \in Event /\ run[d].event # e
      BY <1>1 DEF Held, TypeOK, Run
    <2>2. e \notin lost
      BY <1>1 DEF Held
    <2> QED
      BY <1>1, <1>6, <1>7, <2>1, <2>2 DEF Held, TypeOK
  <1>11. RowsTrue'
    BY <1>1, <1>2, <1>6, <1>7 DEF RowsTrue
  <1>12. SnapshotsTrue'
    BY <1>1, <1>6, <1>7 DEF SnapshotsTrue, TypeOK, Snapshot
  <1>13. RunsTrue'
    BY <1>1 DEF RunsTrue, RunTrue
  <1>14. Fresh'
    BY <1>1, <1>6 DEF Fresh, RowsTrue
  <1> QED
    BY <1>9, <1>10, <1>11, <1>12, <1>13, <1>14 DEF IInv

(* Due: nothing that matters changes. *)
LEMMA DueInv == ASSUME IInv, NEW e \in Event, Due(e) PROVE IInv'
  <1> USE DEF Due, history
  <1>1. TypeOK /\ Held /\ RowsTrue /\ SnapshotsTrue /\ RunsTrue /\ Fresh
    BY DEF IInv
  <1>2. row \in [Event -> Row]
    BY <1>1 DEF TypeOK, Row
  <1>3. [row[e] EXCEPT !.due = TRUE] \in Row
    BY <1>2 DEF Row
  <1>4. row' \in [Event -> Row]
    BY <1>2, <1>3
  <1>5. \A x \in Event : /\ row'[x].status = row[x].status /\ row'[x].attempts = row[x].attempts
                         /\ row'[x].consumedBy = row[x].consumedBy
    BY <1>2 DEF Row
  <1>6. TypeOK'
    BY <1>1, <1>4 DEF TypeOK, Row
  <1>7. Held'
    <2>1. \A d \in Drain : run[d] # Free => run[d].event \in Event
      BY <1>1 DEF TypeOK, Run
    <2> QED
      BY <1>1, <1>5, <2>1 DEF Held, TypeOK
  <1>8. RowsTrue'
    BY <1>1, <1>5 DEF RowsTrue
  <1>9. SnapshotsTrue'
    BY <1>1, <1>5 DEF SnapshotsTrue, TypeOK, Snapshot
  <1>10. RunsTrue' /\ Fresh'
    BY <1>1, <1>5 DEF RunsTrue, RunTrue, Fresh
  <1> QED
    BY <1>6, <1>7, <1>8, <1>9, <1>10 DEF IInv

(* Select: the snapshots are true of the rows they are taken from. *)
LEMMA SelectInv == ASSUME IInv, NEW d \in Drain, Select(d) PROVE IInv'
  <1> USE DEF Select, history
  <1>1. TypeOK /\ Held /\ RowsTrue /\ SnapshotsTrue /\ RunsTrue /\ Fresh
    BY DEF IInv
  <1>2. row \in [Event -> Row] /\ batch \in [Drain -> SUBSET Snapshot]
    BY <1>1 DEF TypeOK, Row
  <1>3. \A e \in Selected : e \in Event /\ row[e].status = "pending"
    BY DEF Selected, Ready
  <1>4. \A e \in Selected : SnapshotOf(e) \in Snapshot
    <2> SUFFICES ASSUME NEW e \in Selected PROVE SnapshotOf(e) \in Snapshot
      OBVIOUS
    <2>1. row[e].attempts \in 0..MaxAttempts /\ row[e].attempts < MaxAttempts /\ row[e].consumedBy \in SUBSET Consumer
      BY <1>1, <1>2, <1>3 DEF RowsTrue, Row
    <2>2. row[e].attempts \in 0..(MaxAttempts - 1)
      BY <2>1, BoundsAssumption
    <2> QED
      BY <1>3, <2>1, <2>2 DEF SnapshotOf, Snapshot
  <1>5. batch' \in [Drain -> SUBSET Snapshot]
    BY <1>2, <1>4
  <1>6. TypeOK'
    BY <1>1, <1>5 DEF TypeOK, Row
  <1>7. SnapshotsTrue'
    <2> SUFFICES ASSUME NEW c \in Drain, NEW s \in batch'[c]
                 PROVE  /\ s.consumedBy \subseteq answered[s.event] /\ s.attempts <= failures[s.event]
                        /\ row[s.event].status # "absent"
      BY DEF SnapshotsTrue
    <2>1. CASE c = d
      <3>1. PICK e \in Selected : s = SnapshotOf(e)
        BY <2>1, <1>2
      <3> QED
        BY <3>1, <1>1, <1>3 DEF SnapshotOf, RowsTrue
    <2>2. CASE c # d
      BY <2>2, <1>1, <1>2 DEF SnapshotsTrue
    <2> QED
      BY <2>1, <2>2
  <1>8. UNCHANGED <<row, run, answered, failures, repeated, stale, lost>>
    OBVIOUS
  <1>9. Held' /\ RowsTrue'
    BY <1>1, <1>8 DEF Held, RowsTrue
  <1>10. RunsTrue' /\ Fresh'
    BY <1>1, <1>8 DEF RunsTrue, RunTrue, Fresh
  <1> QED
    BY <1>6, <1>7, <1>9, <1>10 DEF IInv

(* ComesTo: the drain is free, the snapshot true, and the batch shrinks. *)
LEMMA ComesToFacts ==
  ASSUME IInv, NEW d \in Drain, NEW s \in batch[d], ComesTo(d, s)
  PROVE  /\ run[d] = Free /\ s \in Snapshot /\ s.event \in Event
         /\ s.consumedBy \subseteq answered[s.event] /\ s.attempts <= failures[s.event]
         /\ batch' \in [Drain -> SUBSET Snapshot]
         /\ \A c \in Drain : batch'[c] \subseteq batch[c]
  <1>1. batch \in [Drain -> SUBSET Snapshot]
    BY DEF IInv, TypeOK
  <1>2. s \in Snapshot /\ s.event \in Event
    BY <1>1 DEF Snapshot
  <1>3. batch' = [batch EXCEPT ![d] = batch[d] \ {s}] /\ run[d] = Free
    BY DEF ComesTo
  <1>4. batch' \in [Drain -> SUBSET Snapshot] /\ \A c \in Drain : batch'[c] \subseteq batch[c]
    BY <1>1, <1>3
  <1>5. s.consumedBy \subseteq answered[s.event] /\ s.attempts <= failures[s.event]
    BY DEF IInv, SnapshotsTrue
  <1> QED
    BY <1>2, <1>3, <1>4, <1>5

(* Claim of a pending row: the drain holds it alone, and what it read is   *)
(* what the row says unless the claim is stale.                            *)
LEMMA ClaimInv == ASSUME IInv, NEW d \in Drain, NEW s \in batch[d], Claim(d, s) PROVE IInv'
  <1> DEFINE e == s.event
  <1> USE DEF history
  <1>1. TypeOK /\ Held /\ RowsTrue /\ SnapshotsTrue /\ RunsTrue /\ Fresh
    BY DEF IInv
  <1>2. row \in [Event -> Row] /\ run \in [Drain -> Run \cup {Free}]
    BY <1>1 DEF TypeOK, Row
  <1>3. ComesTo(d, s)
    BY DEF Claim
  <1>4. /\ run[d] = Free /\ s \in Snapshot /\ e \in Event
        /\ s.consumedBy \subseteq answered[e] /\ s.attempts <= failures[e]
        /\ batch' \in [Drain -> SUBSET Snapshot]
        /\ \A c \in Drain : batch'[c] \subseteq batch[c]
    BY <1>3, ComesToFacts
  <1>5. UNCHANGED <<created, answered, failures, repeated, lost, retries, faults>>
    BY DEF Claim
  <1>6. CASE row[e].status # "pending"
    <2>1. UNCHANGED <<row, run, stale>>
      BY <1>6 DEF Claim
    <2>2. TypeOK'
      BY <1>1, <1>4, <1>5, <2>1 DEF TypeOK, Row
    <2>3. SnapshotsTrue'
      BY <1>1, <1>4, <1>5, <2>1 DEF SnapshotsTrue
    <2>4. Held' /\ RowsTrue' /\ RunsTrue' /\ Fresh'
      BY <1>1, <1>5, <2>1 DEF Held, RowsTrue, RunsTrue, RunTrue, Fresh
    <2> QED
      BY <2>2, <2>3, <2>4 DEF IInv
  <1>7. CASE row[e].status = "pending"
    <2>1. /\ row' = [row EXCEPT ![e] = [row[e] EXCEPT !.status = "processing"]]
          /\ run' = [run EXCEPT ![d] = Begin(s)]
          /\ stale' = IF row[e].consumedBy # s.consumedBy THEN stale \cup {e} ELSE stale
      BY <1>7 DEF Claim
    <2>2. Begin(s) \in Run
      BY <1>4, HandlesAssumption DEF Begin, Run, Snapshot
    <2>3. /\ Begin(s).event = e /\ Begin(s).consumedBy = s.consumedBy /\ Begin(s).attempts = s.attempts
          /\ Begin(s).left = Handles[e] \ s.consumedBy /\ Begin(s).ok = {} /\ Begin(s).failed = FALSE
      BY DEF Begin
    <2>4. Begin(s) # Free
      BY <2>2, FreeIsNone
    <2>5. [row[e] EXCEPT !.status = "processing"] \in Row
      BY <1>2, <1>4 DEF Row
    <2>6. row' \in [Event -> Row] /\ run' \in [Drain -> Run \cup {Free}] /\ stale' \subseteq Event
      BY <1>1, <1>2, <1>4, <2>1, <2>2, <2>5 DEF TypeOK
    <2>7. /\ row'[e].status = "processing" /\ row'[e].consumedBy = row[e].consumedBy
          /\ row'[e].attempts = row[e].attempts
          /\ \A x \in Event : x # e => row'[x] = row[x]
      BY <1>2, <1>4, <2>1 DEF Row
    <2>8. run'[d] = Begin(s) /\ \A c \in Drain : c # d => run'[c] = run[c]
      BY <1>2, <2>1
    <2>9. TypeOK'
      BY <1>1, <1>4, <1>5, <2>6 DEF TypeOK, Row
    <2>10. \A c \in Drain : run[c] # Free => run[c].event \in Event /\ run[c].event # e
      BY <1>1, <1>2, <1>7 DEF Held, Run
    <2>11. \A c \in Drain : run[c] = Free => run[c].event # e
      BY <1>4, NoneAssumption DEF Free
    <2>12. Held'
      <3>1. \A c \in Drain : run'[c] # Free => row'[run'[c].event].status = "processing" /\ run'[c].event \notin lost'
        BY <1>1, <1>5, <1>7, <2>3, <2>7, <2>8, <2>10 DEF Held
      <3>2. \A b, c \in Drain : run'[b] # Free /\ run'[b].event = run'[c].event => b = c
        BY <1>1, <2>3, <2>8, <2>10, <2>11 DEF Held
      <3>3. \A x \in Event : row'[x].status = "processing" /\ x \notin lost' => \E c \in Drain : run'[c].event = x
        <4> SUFFICES ASSUME NEW x \in Event, row'[x].status = "processing", x \notin lost'
                     PROVE \E c \in Drain : run'[c].event = x
          OBVIOUS
        <4>1. CASE x = e
          BY <4>1, <2>3, <2>8
        <4>2. CASE x # e
          <5>1. PICK c \in Drain : run[c].event = x
            BY <4>2, <1>1, <1>5, <2>7 DEF Held
          <5>2. c # d
            BY <5>1, <1>4, NoneAssumption DEF Free
          <5> QED
            BY <5>1, <5>2, <2>8
        <4> QED
          BY <4>1, <4>2
      <3>4. \A x \in lost' : row'[x].status = "processing"
        BY <1>1, <1>5, <2>7 DEF Held, TypeOK
      <3> QED
        BY <3>1, <3>2, <3>3, <3>4 DEF Held
    <2>13. RowsTrue'
      BY <1>1, <1>4, <1>5, <1>7, <2>7 DEF RowsTrue
    <2>14. SnapshotsTrue'
      BY <1>1, <1>4, <1>5, <2>7 DEF SnapshotsTrue, TypeOK, Snapshot
    <2>15. RunsTrue'
      <3>1. RunTrue(Begin(s), answered[e], failures[e])
        BY <1>4, <2>3 DEF RunTrue
      <3>2. \A c \in Drain : c # d /\ run[c] # Free => RunTrue(run[c], answered[run[c].event], failures[run[c].event])
        BY <1>1 DEF RunsTrue
      <3> QED
        BY <3>1, <3>2, <1>5, <2>3, <2>8 DEF RunsTrue
    <2>16. Fresh'
      <3>1. \A x \in Event \ stale' : row'[x].status = "pending" => answered'[x] \subseteq row'[x].consumedBy
        BY <1>1, <1>5, <2>1, <2>7 DEF Fresh
      <3>2. \A c \in Drain : run'[c] # Free /\ run'[c].event \notin stale' =>
               /\ run'[c].left \cap answered'[run'[c].event] = {}
               /\ answered'[run'[c].event] \subseteq run'[c].consumedBy \cup run'[c].ok
        <4> SUFFICES ASSUME NEW c \in Drain, run'[c] # Free, run'[c].event \notin stale'
                     PROVE  /\ run'[c].left \cap answered[run'[c].event] = {}
                            /\ answered[run'[c].event] \subseteq run'[c].consumedBy \cup run'[c].ok
          BY <1>5
        <4>1. CASE c = d
          <5>1. e \notin stale /\ row[e].consumedBy = s.consumedBy
            BY <4>1, <2>1, <2>3, <2>8
          <5>2. answered[e] \subseteq s.consumedBy
            BY <5>1, <1>1, <1>4, <1>7 DEF Fresh
          <5> QED
            BY <4>1, <5>2, <2>3, <2>8
        <4>2. CASE c # d
          <5>1. run'[c] = run[c] /\ run[c].event \notin stale
            BY <4>2, <2>1, <2>8
          <5> QED
            BY <5>1, <1>1 DEF Fresh
        <4> QED
          BY <4>1, <4>2
      <3> QED
        BY <3>1, <3>2, <1>1, <1>5 DEF Fresh
    <2> QED
      BY <2>9, <2>12, <2>13, <2>14, <2>15, <2>16 DEF IInv
  <1> QED
    BY <1>6, <1>7

(* ClaimFails: the row may be left processing, and lost with it. *)
LEMMA ClaimFailsInv ==
  ASSUME IInv, NEW d \in Drain, NEW s \in batch[d], NEW made \in BOOLEAN, ClaimFails(d, s, made)
  PROVE  IInv'
  <1> DEFINE e == s.event
  <1>1. TypeOK /\ Held /\ RowsTrue /\ SnapshotsTrue /\ RunsTrue /\ Fresh
    BY DEF IInv
  <1>2. row \in [Event -> Row]
    BY <1>1 DEF TypeOK, Row
  <1>3. ComesTo(d, s)
    BY DEF ClaimFails
  <1>4. /\ e \in Event /\ batch' \in [Drain -> SUBSET Snapshot]
        /\ \A c \in Drain : batch'[c] \subseteq batch[c]
    BY <1>3, ComesToFacts
  <1>5. UNCHANGED <<created, run, answered, failures, repeated, stale, retries>> /\ faults' \in 0..MaxFaults
    BY <1>1, BoundsAssumption DEF ClaimFails, Suffer, TypeOK
  <1>6. CASE made = FALSE
    <2>1. UNCHANGED <<row, lost>>
      BY <1>6 DEF ClaimFails
    <2>2. TypeOK'
      BY <1>1, <1>4, <1>5, <2>1 DEF TypeOK, Row
    <2>3. SnapshotsTrue'
      BY <1>1, <1>4, <1>5, <2>1 DEF SnapshotsTrue
    <2>4. Held' /\ RowsTrue' /\ RunsTrue' /\ Fresh'
      BY <1>1, <1>5, <2>1 DEF Held, RowsTrue, RunsTrue, RunTrue, Fresh
    <2> QED
      BY <2>2, <2>3, <2>4 DEF IInv
  <1>7. CASE made = TRUE
    <2>1. /\ row' = [row EXCEPT ![e] = [row[e] EXCEPT !.status = "processing"]] /\ lost' = lost \cup {e}
          /\ row[e].status = "pending"
      BY <1>7 DEF ClaimFails
    <2>2. [row[e] EXCEPT !.status = "processing"] \in Row
      BY <1>2, <1>4 DEF Row
    <2>3. row' \in [Event -> Row] /\ lost' \subseteq Event
      BY <1>1, <1>2, <1>4, <2>1, <2>2 DEF TypeOK
    <2>4. /\ row'[e].status = "processing" /\ row'[e].consumedBy = row[e].consumedBy
          /\ row'[e].attempts = row[e].attempts
          /\ \A x \in Event : x # e => row'[x] = row[x]
      BY <1>2, <1>4, <2>1 DEF Row
    <2>5. TypeOK'
      BY <1>1, <1>4, <1>5, <2>3 DEF TypeOK, Row
    <2>6. \A c \in Drain : run[c] # Free => run[c].event \in Event /\ run[c].event # e
      BY <1>1, <2>1 DEF Held, TypeOK, Run
    <2>7. Held'
      BY <1>1, <1>5, <2>1, <2>4, <2>6 DEF Held, TypeOK
    <2>8. RunsTrue'
      BY <1>1, <1>5, <2>4 DEF RunsTrue, RunTrue
    <2>11. RowsTrue'
      BY <1>1, <1>4, <1>5, <2>1, <2>4 DEF RowsTrue
    <2>9. SnapshotsTrue'
      BY <1>1, <1>4, <1>5, <2>4 DEF SnapshotsTrue, TypeOK, Snapshot
    <2>10. Fresh'
      BY <1>1, <1>5, <2>4 DEF Fresh
    <2> QED
      BY <2>5, <2>7, <2>8, <2>9, <2>10, <2>11 DEF IInv
  <1> QED
    BY <1>6, <1>7

(* What a consumer's answer does to the run of the drain that asked it.    *)
Handled(d, v, c) ==
  /\ run[d] \in Run /\ run'[d] \in Run /\ run' = [run EXCEPT ![d] = run'[d]]
  /\ run'[d].event = run[d].event /\ run'[d].consumedBy = run[d].consumedBy
  /\ run'[d].attempts = run[d].attempts /\ run'[d].left = run[d].left \ {c}
  /\ repeated' = IF c \in answered[run[d].event] /\ run[d].event \notin stale
                  THEN repeated \cup {run[d].event} ELSE repeated
  /\ \/ /\ v = "ok" /\ run'[d].ok = run[d].ok \cup {c}
        /\ run'[d].failed = run[d].failed /\ run'[d].retry = run[d].retry
        /\ answered' = [answered EXCEPT ![run[d].event] = @ \cup {c}]
        /\ UNCHANGED failures
     \/ /\ v = "error" /\ run'[d].ok = run[d].ok /\ run'[d].failed = TRUE
        /\ run'[d].retry = run[d].retry
        /\ failures' = IF run[d].failed = TRUE \/ failures[run[d].event] = MaxAttempts
                        THEN failures ELSE [failures EXCEPT ![run[d].event] = @ + 1]
        /\ UNCHANGED answered
     \/ /\ v = "retry" /\ run'[d].ok = run[d].ok /\ run'[d].retry = TRUE
        /\ run'[d].failed = run[d].failed /\ UNCHANGED <<answered, failures>>
  /\ UNCHANGED <<row, created, batch, stale, lost, faults>> /\ retries' \in 0..MaxRetries

(* Every answer of a consumer does that. *)
LEMMA HandleFacts ==
  ASSUME IInv, NEW d \in Drain, NEW v \in {"ok", "error", "retry"}, Handle(d, v)
  PROVE  \E c \in run[d].left : Handled(d, v, c)
  <1> DEFINE c == CHOOSE x \in run[d].left : TRUE
             r == [run[d] EXCEPT !.left = @ \ {c}]
  <1>1. run \in [Drain -> Run \cup {Free}] /\ retries \in 0..MaxRetries /\ MaxRetries \in Nat
    BY BoundsAssumption DEF IInv, TypeOK
  <1>2. run[d] \in Run /\ c \in run[d].left
    BY <1>1 DEF Handle
  <1>3. run[d].failed \in BOOLEAN /\ run[d].retry \in BOOLEAN /\ run[d].left \subseteq Consumer
        /\ run[d].ok \subseteq Consumer
    BY <1>2 DEF Run
  <1>4. c \in Consumer
    BY <1>2, <1>3
  <1>5. r \in Run /\ r.event = run[d].event /\ r.consumedBy = run[d].consumedBy /\ r.attempts = run[d].attempts
        /\ r.left = run[d].left \ {c} /\ r.ok = run[d].ok /\ r.failed = run[d].failed /\ r.retry = run[d].retry
    BY <1>2, <1>3 DEF Run
  <1>6. UNCHANGED <<row, created, batch, stale, lost, faults>>
        /\ repeated' = IF c \in answered[run[d].event] /\ run[d].event \notin stale
                        THEN repeated \cup {run[d].event} ELSE repeated
    BY DEF Handle
  <1>7. CASE v = "ok"
    <2> DEFINE n == [r EXCEPT !.ok = r.ok \cup {c}]
    <2>1. run' = [run EXCEPT ![d] = n] /\ answered' = [answered EXCEPT ![run[d].event] = @ \cup {c}]
          /\ UNCHANGED <<failures, retries>>
      BY <1>7 DEF Handle
    <2>2. n \in Run /\ n.event = r.event /\ n.consumedBy = r.consumedBy /\ n.attempts = r.attempts
          /\ n.left = r.left /\ n.ok = r.ok \cup {c} /\ n.failed = r.failed /\ n.retry = r.retry
      BY <1>3, <1>4, <1>5 DEF Run
    <2> HIDE DEF n, r, c
    <2>3. run'[d] = n
      BY <1>1, <2>1
    <2> QED
      BY <1>1, <1>2, <1>5, <1>6, <1>7, <2>1, <2>2, <2>3 DEF Handled
  <1>8. CASE v = "error"
    <2> DEFINE n == [r EXCEPT !.failed = TRUE]
    <2>1. run' = [run EXCEPT ![d] = n] /\ UNCHANGED <<answered, retries>>
      BY <1>8 DEF Handle
    <2>a. failures' = IF run[d].failed = TRUE \/ failures[run[d].event] = MaxAttempts
                      THEN failures ELSE [failures EXCEPT ![run[d].event] = @ + 1]
      BY <1>3, <1>8 DEF Handle
    <2>2. n \in Run /\ n.event = r.event /\ n.consumedBy = r.consumedBy /\ n.attempts = r.attempts
          /\ n.left = r.left /\ n.ok = r.ok /\ n.failed = TRUE /\ n.retry = r.retry
      BY <1>5 DEF Run
    <2> HIDE DEF n, r, c
    <2>3. run'[d] = n
      BY <1>1, <2>1
    <2> QED
      BY <1>1, <1>2, <1>5, <1>6, <1>8, <2>1, <2>a, <2>2, <2>3 DEF Handled
  <1>9. CASE v = "retry"
    <2> DEFINE n == [r EXCEPT !.retry = TRUE]
    <2>1. run' = [run EXCEPT ![d] = n] /\ retries < MaxRetries /\ retries' = retries + 1
          /\ UNCHANGED <<answered, failures>>
      BY <1>9 DEF Handle
    <2>2. n \in Run /\ n.event = r.event /\ n.consumedBy = r.consumedBy /\ n.attempts = r.attempts
          /\ n.left = r.left /\ n.ok = r.ok /\ n.failed = r.failed /\ n.retry = TRUE
      BY <1>5 DEF Run
    <2> HIDE DEF n, r, c
    <2>3. run'[d] = n /\ retries' \in 0..MaxRetries
      BY <1>1, <2>1
    <2> QED
      BY <1>1, <1>2, <1>5, <1>6, <1>9, <2>1, <2>2, <2>3 DEF Handled
  <1> QED
    BY <1>7, <1>8, <1>9

(* Handle: only the run of d changes, and what it says stays true. *)
LEMMA HandleInv ==
  ASSUME IInv, NEW d \in Drain, NEW v \in {"ok", "error", "retry"}, Handle(d, v) PROVE IInv'
  <1> DEFINE e == run[d].event
  <1>1. TypeOK /\ Held /\ RowsTrue /\ SnapshotsTrue /\ RunsTrue /\ Fresh
    BY DEF IInv
  <1> USE DEF Handled
  <1>2. PICK c \in run[d].left : Handled(d, v, c)
    BY HandleFacts
  <1>3. /\ run \in [Drain -> Run \cup {Free}] /\ answered \in [Event -> SUBSET Consumer]
        /\ failures \in [Event -> 0..MaxAttempts] /\ MaxAttempts \in Nat \ {0}
    BY <1>1, BoundsAssumption DEF TypeOK
  <1>4. e \in Event /\ run[d].left \subseteq Consumer /\ run[d].attempts \in 0..(MaxAttempts - 1) /\ run[d] # Free
    BY <1>2, FreeIsNone DEF Run
  <1>5. \A x \in Drain : x # d => run'[x] = run[x]
    BY <1>2, <1>3
  <1>6. run' \in [Drain -> Run \cup {Free}]
    BY <1>2, <1>3
  <1>7. answered' \in [Event -> SUBSET Consumer] /\ \A x \in Event : answered[x] \subseteq answered'[x]
    BY <1>2, <1>3, <1>4
  <1>8. failures' \in [Event -> 0..MaxAttempts] /\ \A x \in Event : failures[x] <= failures'[x]
    BY <1>2, <1>3, <1>4
  <1>9. \A x \in Event : x # e => answered'[x] = answered[x] /\ failures'[x] = failures[x]
    BY <1>2, <1>3, <1>4
  <1>10. answered'[e] \subseteq Handles[e]
    <2>1. c \in Handles[e]
      BY <1>1, <1>2, <1>4 DEF RunsTrue, RunTrue
    <2>2. answered[e] \subseteq Handles[e]
      BY <1>1, <1>4 DEF RowsTrue
    <2> QED
      BY <2>1, <2>2, <1>2, <1>3, <1>4
  <1>11. e \notin stale => c \notin answered[e]
    BY <1>1, <1>2, <1>4 DEF Fresh
  <1>12. repeated' = repeated
    BY <1>2, <1>11
  <1>13. TypeOK'
    BY <1>1, <1>2, <1>6, <1>7, <1>8, <1>12 DEF TypeOK, Row
  <1>14. run'[d] # Free /\ \A x \in Drain : run'[x].event = run[x].event /\ (run'[x] # Free => run[x] # Free)
    BY <1>2, <1>4, <1>5, FreeIsNone
  <1>15. Held'
    BY <1>1, <1>2, <1>14 DEF Held
  <1>16. RowsTrue'
    <2>1. row[e].status = "processing"
      BY <1>1, <1>4 DEF Held
    <2>2. \A x \in Event : row[x].attempts \in 0..MaxAttempts
      BY <1>1 DEF TypeOK
    <2> SUFFICES ASSUME NEW x \in Event
                 PROVE  /\ row[x].consumedBy \subseteq answered'[x] /\ answered'[x] \subseteq Handles[x]
                        /\ row[x].attempts <= failures'[x]
                        /\ row[x].status \in {"absent", "pending", "processing"} => row[x].attempts < MaxAttempts
                        /\ row[x].status = "absent" => answered'[x] = {}
      BY <1>2 DEF RowsTrue
    <2>3. row[x].consumedBy \subseteq answered'[x] /\ answered'[x] \subseteq Handles[x]
      BY <1>1, <1>7, <1>9, <1>10 DEF RowsTrue
    <2>4. row[x].attempts <= failures'[x]
      <3>1. row[x].attempts <= failures[x] /\ failures[x] <= failures'[x]
        BY <1>1, <1>8 DEF RowsTrue
      <3> QED
        BY <3>1, <2>2, <1>3, <1>8
    <2> QED
      BY <2>1, <2>3, <2>4, <1>1, <1>9 DEF RowsTrue
  <1>17. SnapshotsTrue'
    <2> SUFFICES ASSUME NEW x \in Drain, NEW s \in batch[x]
                 PROVE  /\ s.consumedBy \subseteq answered'[s.event] /\ s.attempts <= failures'[s.event]
                        /\ row[s.event].status # "absent"
      BY <1>2 DEF SnapshotsTrue
    <2>1. s.event \in Event /\ s.attempts \in 0..(MaxAttempts - 1)
      BY <1>1 DEF TypeOK, Snapshot
    <2>2. s.consumedBy \subseteq answered[s.event] /\ s.attempts <= failures[s.event] /\ row[s.event].status # "absent"
      BY <1>1 DEF SnapshotsTrue
    <2> QED
      BY <2>1, <2>2, <1>3, <1>7, <1>8
  <1>18. RunsTrue'
    <2>1. RunTrue(run[d], answered[e], failures[e])
      BY <1>1, <1>4 DEF RunsTrue
    <2>2. RunTrue(run'[d], answered'[e], failures'[e])
      <3>1. run'[d].consumedBy \cup run'[d].ok \subseteq answered'[e] /\ run'[d].left \subseteq Handles[e]
        BY <1>2, <1>3, <1>4, <2>1 DEF RunTrue
      <3>2. run'[d].attempts <= failures'[e]
        BY <1>2, <1>3, <1>4, <1>8, <2>1 DEF RunTrue
      <3>3. run'[d].failed = TRUE => run'[d].attempts + 1 <= failures'[e]
        <4>1. failures[e] \in 0..MaxAttempts /\ run[d].attempts <= failures[e]
          BY <1>3, <1>4, <2>1 DEF RunTrue
        <4>2. CASE run[d].failed = TRUE
          <5>1. run[d].attempts + 1 <= failures[e]
            BY <4>2, <2>1 DEF RunTrue
          <5> QED
            BY <5>1, <4>1, <1>2, <1>3, <1>4, <1>8
        <4>3. CASE run[d].failed # TRUE /\ v = "error"
          <5>1. failures'[e] = IF failures[e] = MaxAttempts THEN failures[e] ELSE failures[e] + 1
            BY <4>3, <1>2, <1>3, <1>4
          <5> QED
            BY <5>1, <4>1, <1>2, <1>3, <1>4
        <4>4. CASE run[d].failed # TRUE /\ v # "error"
          BY <4>4, <1>2
        <4> QED
          BY <4>2, <4>3, <4>4
      <3>4. run'[d].failed # TRUE /\ run'[d].retry # TRUE
              => Handles[e] \subseteq run'[d].consumedBy \cup run'[d].ok \cup run'[d].left
        BY <1>2, <2>1 DEF RunTrue
      <3> QED
        BY <3>1, <3>2, <3>3, <3>4, <1>2 DEF RunTrue
    <2>3. \A x \in Drain : x # d /\ run'[x] # Free => RunTrue(run'[x], answered'[run'[x].event], failures'[run'[x].event])
      <3> SUFFICES ASSUME NEW x \in Drain, x # d, run'[x] # Free PROVE RunTrue(run'[x], answered'[run'[x].event], failures'[run'[x].event])
        OBVIOUS
      <3>1. run'[x] = run[x] /\ run[x] \in Run /\ RunTrue(run[x], answered[run[x].event], failures[run[x].event]) /\ run[x].event # e
        BY <1>1, <1>3, <1>4, <1>5 DEF RunsTrue, Held
      <3>2. run[x].event \in Event
        BY <3>1 DEF Run
      <3> QED
        BY <3>1, <3>2, <1>9 DEF RunTrue
    <2> QED
      BY <2>2, <2>3, <1>2 DEF RunsTrue
  <1>19. Fresh'
    <2>1. row[e].status = "processing"
      BY <1>1, <1>4 DEF Held
    <2>2. \A x \in Event \ stale : row[x].status = "pending" => answered'[x] \subseteq row[x].consumedBy
      BY <1>1, <1>9, <2>1 DEF Fresh
    <2>3. \A x \in Drain : run'[x] # Free /\ run'[x].event \notin stale =>
               /\ run'[x].left \cap answered'[run'[x].event] = {}
               /\ answered'[run'[x].event] \subseteq run'[x].consumedBy \cup run'[x].ok
      <3> SUFFICES ASSUME NEW x \in Drain, run'[x] # Free, run'[x].event \notin stale
                   PROVE  /\ run'[x].left \cap answered'[run'[x].event] = {}
                          /\ answered'[run'[x].event] \subseteq run'[x].consumedBy \cup run'[x].ok
        OBVIOUS
      <3>1. CASE x = d
        <4>1. run[d].left \cap answered[e] = {} /\ answered[e] \subseteq run[d].consumedBy \cup run[d].ok
          BY <3>1, <1>1, <1>2, <1>4 DEF Fresh
        <4> QED
          BY <3>1, <4>1, <1>2, <1>3, <1>4
      <3>2. CASE x # d
        <4>1. run'[x] = run[x] /\ run[x] \in Run /\ run[x].event # e
          BY <3>2, <1>1, <1>3, <1>4, <1>5 DEF Held
        <4>2. run[x].event \in Event
          BY <4>1 DEF Run
        <4> QED
          BY <4>1, <4>2, <1>1, <1>9 DEF Fresh
      <3> QED
        BY <3>1, <3>2
    <2> QED
      BY <2>2, <2>3, <1>1, <1>2, <1>12 DEF Fresh
  <1> QED
    BY <1>13, <1>15, <1>16, <1>17, <1>18, <1>19 DEF IInv

(* What a verdict writes, and what it is true of. *)
LEMMA WrittenFacts ==
  ASSUME IInv, NEW d \in Drain, run[d] # Free, run[d].left = {}
  PROVE  /\ run[d] \in Run /\ Written(run[d]) \in Row
         /\ Written(run[d]).consumedBy = run[d].consumedBy \cup run[d].ok
         /\ Written(run[d]).attempts <= failures[run[d].event]
         /\ \/ Written(run[d]).status = "pending" /\ Written(run[d]).attempts < MaxAttempts
            \/ Written(run[d]).status = "dead" /\ failures[run[d].event] = MaxAttempts
            \/ Written(run[d]).status = "done" /\ answered[run[d].event] = Handles[run[d].event]
  <1> DEFINE r == run[d]
             e == r.event
             B == r.consumedBy \cup r.ok
  <1>1. TypeOK /\ Held /\ RowsTrue /\ RunsTrue
    BY DEF IInv
  <1>2. r \in Run /\ e \in Event /\ row[e] \in Row /\ failures[e] \in 0..MaxAttempts
    BY <1>1 DEF TypeOK, Run, Row
  <1>3. /\ r.attempts \in 0..(MaxAttempts - 1) /\ B \subseteq Consumer
        /\ r.failed \in BOOLEAN /\ r.retry \in BOOLEAN /\ MaxAttempts \in Nat \ {0}
    BY <1>2, BoundsAssumption DEF Run
  <1>4. row[e].status = "processing" /\ row[e].attempts \in 0..MaxAttempts /\ row[e].attempts < MaxAttempts
        /\ row[e].attempts <= failures[e] /\ answered[e] \subseteq Handles[e]
    BY <1>1, <1>2 DEF Held, RowsTrue, Row
  <1>5. RunTrue(r, answered[e], failures[e])
    BY <1>1 DEF RunsTrue
  <1>6. CASE r.retry = TRUE
    <2>1. Written(r) = [row[e] EXCEPT !.status = "pending", !.consumedBy = B, !.due = FALSE]
      BY <1>6 DEF Written
    <2>2. Written(r) \in Row /\ Written(r).consumedBy = B /\ Written(r).attempts = row[e].attempts
          /\ Written(r).status = "pending"
      BY <2>1, <1>2, <1>3 DEF Row
    <2> QED
      BY <2>2, <1>2, <1>4
  <1>7. CASE r.retry = FALSE /\ r.failed = TRUE
    <2> DEFINE dead == r.attempts + 1 >= MaxAttempts
    <2>1. Written(r) = [status |-> IF dead THEN "dead" ELSE "pending", consumedBy |-> B,
                        attempts |-> r.attempts + 1, due |-> dead]
      BY <1>7 DEF Written
    <2>2. r.attempts + 1 \in 0..MaxAttempts /\ r.attempts + 1 <= failures[e]
      BY <1>3, <1>5, <1>7 DEF RunTrue
    <2>3. dead \in BOOLEAN
      OBVIOUS
    <2> HIDE DEF dead, B
    <2>4. Written(r) \in Row
      BY <2>1, <2>2, <2>3, <1>3 DEF Row
    <2>5. Written(r).consumedBy = B /\ Written(r).attempts = r.attempts + 1
          /\ Written(r).status = IF dead THEN "dead" ELSE "pending"
      BY <2>1
    <2>6. dead => failures[e] = MaxAttempts
      BY <2>2, <1>2, <1>3 DEF dead
    <2>7. ~dead => r.attempts + 1 < MaxAttempts
      BY <1>3 DEF dead
    <2> QED
      BY <2>2, <2>4, <2>5, <2>6, <2>7, <1>2 DEF B
  <1>8. CASE r.retry = FALSE /\ r.failed = FALSE
    <2>1. Written(r) = [row[e] EXCEPT !.status = "done", !.consumedBy = B]
      BY <1>8 DEF Written
    <2>2. Written(r) \in Row /\ Written(r).consumedBy = B /\ Written(r).attempts = row[e].attempts
          /\ Written(r).status = "done"
      BY <2>1, <1>2, <1>3 DEF Row
    <2>3. answered[e] = Handles[e]
      BY <1>4, <1>5, <1>8 DEF RunTrue
    <2> QED
      BY <2>2, <2>3, <1>2, <1>4
  <1> QED
    BY <1>3, <1>6, <1>7, <1>8

(* Verdict: the row says what its run knew, and nobody holds it. *)
LEMMA VerdictInv == ASSUME IInv, NEW d \in Drain, Verdict(d) PROVE IInv'
  <1> DEFINE e == run[d].event
             w == Written(run[d])
  <1>1. TypeOK /\ Held /\ RowsTrue /\ SnapshotsTrue /\ RunsTrue /\ Fresh
    BY DEF IInv
  <1>2. run[d] # Free /\ run[d].left = {} /\ row' = [row EXCEPT ![e] = w]
        /\ run' = [run EXCEPT ![d] = Free]
        /\ UNCHANGED <<created, batch, answered, failures, repeated, stale, lost, retries, faults>>
    BY DEF Verdict, Answered, history
  <1>3. /\ run[d] \in Run /\ w \in Row /\ w.consumedBy = run[d].consumedBy \cup run[d].ok
        /\ w.attempts <= failures[e]
        /\ \/ w.status = "pending" /\ w.attempts < MaxAttempts
           \/ w.status = "dead" /\ failures[e] = MaxAttempts
           \/ w.status = "done" /\ answered[e] = Handles[e]
    BY <1>2, WrittenFacts
  <1> HIDE DEF w
  <1>4. e \in Event /\ run \in [Drain -> Run \cup {Free}] /\ row \in [Event -> Row]
    BY <1>1, <1>3 DEF TypeOK, Run, Row
  <1>5. row'[e] = w /\ \A x \in Event : x # e => row'[x] = row[x]
    BY <1>2, <1>4
  <1>6. run'[d] = Free /\ \A c \in Drain : c # d => run'[c] = run[c]
    BY <1>2, <1>4
  <1>7. row' \in [Event -> Row] /\ run' \in [Drain -> Run \cup {Free}]
    BY <1>2, <1>3, <1>4
  <1>8. TypeOK'
    BY <1>1, <1>2, <1>7 DEF TypeOK, Row
  <1>9. \A c \in Drain : run'[c] # Free =>
          c # d /\ run'[c] = run[c] /\ run[c].event \in Event /\ run[c].event # e
    BY <1>1, <1>2, <1>4, <1>6 DEF Held, Run
  <1>10. w.status # "processing" /\ w.status # "absent" /\ e \notin lost
    BY <1>1, <1>2, <1>3 DEF Held
  <1>11. Held'
    <2>1. \A c \in Drain : run'[c] # Free => row'[run'[c].event].status = "processing" /\ run'[c].event \notin lost'
      BY <1>1, <1>2, <1>5, <1>9 DEF Held
    <2>2. \A b, c \in Drain : run'[b] # Free /\ run'[b].event = run'[c].event => b = c
      <3> SUFFICES ASSUME NEW b \in Drain, NEW c \in Drain, run'[b] # Free, run'[b].event = run'[c].event
                   PROVE b = c
        OBVIOUS
      <3>1. run'[c] # Free
        BY <1>9, NoneAssumption DEF Free
      <3> QED
        BY <3>1, <1>1, <1>9 DEF Held
    <2>3. \A x \in Event : row'[x].status = "processing" /\ x \notin lost' => \E c \in Drain : run'[c].event = x
      <3> SUFFICES ASSUME NEW x \in Event, row'[x].status = "processing", x \notin lost'
                   PROVE \E c \in Drain : run'[c].event = x
        OBVIOUS
      <3>1. x # e /\ row[x].status = "processing"
        BY <1>5, <1>10
      <3>2. PICK c \in Drain : run[c].event = x
        BY <3>1, <1>1, <1>2 DEF Held
      <3> QED
        BY <3>1, <3>2, <1>6
    <2>4. \A x \in lost' : row'[x].status = "processing"
      BY <1>1, <1>2, <1>5, <1>10 DEF Held, TypeOK
    <2> QED
      BY <2>1, <2>2, <2>3, <2>4 DEF Held
  <1>12. RowsTrue'
    <2>1. w.consumedBy \subseteq answered[e]
      BY <1>1, <1>2, <1>3 DEF RunsTrue, RunTrue
    <2> QED
      BY <2>1, <1>1, <1>2, <1>3, <1>4, <1>5 DEF RowsTrue
  <1>13. SnapshotsTrue'
    BY <1>1, <1>2, <1>5, <1>10 DEF SnapshotsTrue, TypeOK, Snapshot
  <1>14. RunsTrue'
    BY <1>1, <1>2, <1>9 DEF RunsTrue
  <1>15. Fresh'
    <2>1. e \notin stale => answered[e] \subseteq w.consumedBy
      BY <1>1, <1>2, <1>3 DEF Fresh
    <2> QED
      BY <2>1, <1>1, <1>2, <1>5, <1>9 DEF Fresh
  <1> QED
    BY <1>8, <1>11, <1>12, <1>13, <1>14, <1>15 DEF IInv

(* A drain that gives up its row: it is lost, and batches may be, too.     *)
LEMMA LoseInv ==
  ASSUME IInv, NEW d \in Drain, run' = [run EXCEPT ![d] = Free],
         lost' = IF run[d] = Free THEN lost ELSE lost \cup {run[d].event},
         batch' \in [Drain -> SUBSET Snapshot], \A c \in Drain : batch'[c] \subseteq batch[c],
         faults' \in 0..MaxFaults,
         UNCHANGED <<row, created, answered, failures, repeated, stale, retries>>
  PROVE  IInv'
  <1>1. TypeOK /\ Held /\ RowsTrue /\ SnapshotsTrue /\ RunsTrue /\ Fresh
    BY DEF IInv
  <1>2. run \in [Drain -> Run \cup {Free}] /\ row \in [Event -> Row]
    BY <1>1 DEF TypeOK, Row
  <1>3. run'[d] = Free /\ \A c \in Drain : c # d => run'[c] = run[c]
    BY <1>2
  <1>4. \A c \in Drain : run[c] # Free => run[c].event \in Event
    BY <1>2 DEF Run
  <1>5. TypeOK'
    <2>1. run' \in [Drain -> Run \cup {Free}] /\ lost' \subseteq Event
      BY <1>1, <1>2, <1>4 DEF TypeOK
    <2> QED
      BY <1>1, <2>1 DEF TypeOK
  <1>6. \A c \in Drain : run'[c] # Free => c # d /\ run'[c] = run[c] /\ run[c].event \notin lost'
    BY <1>1, <1>3 DEF Held
  <1>7. Held'
    <2>1. \A c \in Drain : run'[c] # Free => row'[run'[c].event].status = "processing" /\ run'[c].event \notin lost'
      BY <1>1, <1>6 DEF Held
    <2>2. \A b, c \in Drain : run'[b] # Free /\ run'[b].event = run'[c].event => b = c
      <3> SUFFICES ASSUME NEW b \in Drain, NEW c \in Drain, run'[b] # Free, run'[b].event = run'[c].event
                   PROVE b = c
        OBVIOUS
      <3>1. run'[c] # Free
        BY <1>4, <1>6, NoneAssumption DEF Free
      <3> QED
        BY <3>1, <1>1, <1>6 DEF Held
    <2>3. \A x \in Event : row'[x].status = "processing" /\ x \notin lost' => \E c \in Drain : run'[c].event = x
      <3> SUFFICES ASSUME NEW x \in Event, row'[x].status = "processing", x \notin lost'
                   PROVE \E c \in Drain : run'[c].event = x
        OBVIOUS
      <3>1. PICK c \in Drain : run[c].event = x
        BY <1>1 DEF Held
      <3>2. run[c] # Free
        BY <3>1, NoneAssumption DEF Free
      <3> QED
        BY <3>1, <3>2, <1>3
    <2>4. \A x \in lost' : row'[x].status = "processing"
      BY <1>1 DEF Held
    <2> QED
      BY <2>1, <2>2, <2>3, <2>4 DEF Held
  <1>8. RowsTrue'
    BY <1>1 DEF RowsTrue
  <1>9. SnapshotsTrue'
    BY <1>1 DEF SnapshotsTrue
  <1>10. RunsTrue' /\ Fresh'
    BY <1>1, <1>6 DEF RunsTrue, Fresh
  <1> QED
    BY <1>5, <1>7, <1>8, <1>9, <1>10 DEF IInv

(* VerdictFails: the run ends and its row stays as the claim left it. *)
LEMMA VerdictFailsInv == ASSUME IInv, NEW d \in Drain, VerdictFails(d) PROVE IInv'
  <1>1. batch \in [Drain -> SUBSET Snapshot] /\ faults \in 0..MaxFaults /\ MaxFaults \in Nat
    BY BoundsAssumption DEF IInv, TypeOK
  <1>2. /\ run' = [run EXCEPT ![d] = Free] /\ run[d] # Free /\ lost' = lost \cup {run[d].event}
        /\ faults < MaxFaults /\ faults' = faults + 1
        /\ UNCHANGED <<row, created, batch, answered, failures, repeated, stale, retries>>
    BY DEF VerdictFails, Answered, Suffer
  <1>3. faults' \in 0..MaxFaults
    BY <1>1, <1>2
  <1>4. batch' \in [Drain -> SUBSET Snapshot] /\ \A c \in Drain : batch'[c] \subseteq batch[c]
    BY <1>1, <1>2
  <1>5. lost' = IF run[d] = Free THEN lost ELSE lost \cup {run[d].event}
    BY <1>2
  <1> QED
    BY <1>2, <1>3, <1>4, <1>5, LoseInv

(* Crash: the batch is forgotten with the run. *)
LEMMA CrashInv == ASSUME IInv, NEW d \in Drain, Crash(d) PROVE IInv'
  <1>1. batch \in [Drain -> SUBSET Snapshot] /\ faults \in 0..MaxFaults /\ MaxFaults \in Nat
    BY BoundsAssumption DEF IInv, TypeOK
  <1>2. /\ run' = [run EXCEPT ![d] = Free] /\ batch' = [batch EXCEPT ![d] = {}]
        /\ lost' = IF run[d] = Free THEN lost ELSE lost \cup {run[d].event}
        /\ faults < MaxFaults /\ faults' = faults + 1
        /\ UNCHANGED <<row, created, answered, failures, repeated, stale, retries>>
    BY DEF Crash, Suffer
  <1>3. faults' \in 0..MaxFaults
    BY <1>1, <1>2
  <1>4. batch' \in [Drain -> SUBSET Snapshot] /\ \A c \in Drain : batch'[c] \subseteq batch[c]
    BY <1>1, <1>2
  <1> QED
    BY <1>2, <1>3, <1>4, LoseInv

-----------------------------------------------------------------------------
(* Every step preserves the invariant. *)
LEMMA NextInv == IInv /\ [Next]_vars => IInv'
  <1> SUFFICES ASSUME IInv, [Next]_vars PROVE IInv'
    OBVIOUS
  <1>1. ASSUME NEW e \in Event, Emit(e) PROVE IInv'
    BY <1>1, EmitInv
  <1>2. ASSUME NEW e \in Event, Due(e) PROVE IInv'
    BY <1>2, DueInv
  <1>3. ASSUME NEW d \in Drain, Select(d) PROVE IInv'
    BY <1>3, SelectInv
  <1>4. ASSUME NEW d \in Drain, Claims(d) PROVE IInv'
    BY <1>4, ClaimInv DEF Claims
  <1>5. ASSUME NEW d \in Drain, Answers(d) PROVE IInv'
    BY <1>5, HandleInv DEF Answers
  <1>6. ASSUME NEW d \in Drain, Verdict(d) PROVE IInv'
    BY <1>6, VerdictInv
  <1>7. ASSUME NEW d \in Drain, VerdictFails(d) PROVE IInv'
    BY <1>7, VerdictFailsInv
  <1>8. ASSUME NEW d \in Drain, Crash(d) PROVE IInv'
    BY <1>8, CrashInv
  <1>9. ASSUME NEW d \in Drain, NEW s \in batch[d], NEW made \in BOOLEAN, ClaimFails(d, s, made) PROVE IInv'
    BY <1>9, ClaimFailsInv
  <1>10. CASE UNCHANGED vars
    <2>1. UNCHANGED <<row, created, batch, run, answered, failures, repeated, stale, lost, retries, faults>>
      BY <1>10 DEF vars, history
    <2>2. TypeOK' /\ Held'
      BY <2>1 DEF IInv, TypeOK, Held
    <2>3. RowsTrue' /\ SnapshotsTrue'
      BY <2>1 DEF IInv, RowsTrue, SnapshotsTrue
    <2>4. RunsTrue' /\ Fresh'
      BY <2>1 DEF IInv, RunsTrue, Fresh
    <2> QED
      BY <2>2, <2>3, <2>4 DEF IInv
  <1> QED
    BY <1>1, <1>2, <1>3, <1>4, <1>5, <1>6, <1>7, <1>8, <1>9, <1>10 DEF Next, Work

(* The invariant holds in every reachable state. *)
LEMMA Invariance == Spec => []IInv
  <1> QED
    BY InitInv, NextInv, PTL DEF Spec

(* Types: no row counts more attempts than it may make, no snapshot or run *)
(* that a drain works on has used them all (drain.ts:104-113).             *)
THEOREM TypeCorrect == Spec => []TypeOK
  <1>1. IInv => TypeOK
    BY DEF IInv
  <1> QED
    BY <1>1, Invariance, PTL

(* Overlapping drains never share an event, and a row is processing        *)
(* without a drain only when a fault lost it (drain.ts:62-68).             *)
THEOREM HeldByOneHolds == Spec => []HeldByOne
  <1>1. IInv => HeldByOne
    <2> SUFFICES ASSUME IInv, NEW e \in Event
                 PROVE  IF row[e].status = "processing" /\ e \notin lost
                          THEN Cardinality({d \in Drain : run[d].event = e}) = 1
                          ELSE {d \in Drain : run[d].event = e} = {}
      BY DEF HeldByOne
    <2>1. \A d \in Drain : run[d].event = e => run[d] # Free
      BY NoneAssumption DEF Free
    <2>2. CASE row[e].status = "processing" /\ e \notin lost
      <3>1. PICK d \in Drain : run[d].event = e
        BY <2>2 DEF IInv, Held
      <3>2. {c \in Drain : run[c].event = e} = {d}
        BY <2>1, <3>1 DEF IInv, Held
      <3>3. Cardinality({d}) = 1
        BY FS_Singleton
      <3> QED
        BY <2>2, <3>2, <3>3
    <2>3. CASE ~(row[e].status = "processing" /\ e \notin lost)
      <3>1. {c \in Drain : run[c].event = e} = {}
        BY <2>1, <2>3 DEF IInv, Held
      <3> QED
        BY <2>3, <3>1
    <2> QED
      BY <2>2, <2>3
  <1> QED
    BY <1>1, Invariance, PTL

(* "idempotência via consumed_by[]" (followup/reactivity.ts:14) holds for  *)
(* every event that no drain claimed with an outdated snapshot.            *)
THEOREM RepeatsHaveACause == Spec => []RepeatHasACause
  <1>1. IInv => RepeatHasACause
    BY DEF IInv, Fresh, RepeatHasACause
  <1> QED
    BY <1>1, Invariance, PTL

-----------------------------------------------------------------------------
(* What the promise sees of a status, and of the table. *)
Seen(status) == IF status \in {"pending", "processing"} THEN "open" ELSE status
Shown == [e \in Event |-> Seen(row[e].status)]

(* A step that shows the same table, answers and failures is a stutter of  *)
(* the promise.                                                            *)
LEMMA Stutters ==
  ASSUME \A e \in Event : Seen(row'[e].status) = Seen(row[e].status), UNCHANGED <<answered, failures>>
  PROVE  UNCHANGED Promise!vars
  <1>1. Shown' = Shown
    BY DEF Shown
  <1> QED
    BY <1>1 DEF Shown, Seen, Promise!vars

(* A verdict settles the event, gives it up, or leaves it open. *)
LEMMA VerdictKeepsPromise ==
  ASSUME IInv, NEW d \in Drain, Verdict(d) PROVE Promise!Next \/ UNCHANGED Promise!vars
  <1> DEFINE w == Written(run[d])
  <1>0. run[d] # Free /\ run[d].event \in Event
    BY FreeIsNone DEF Verdict, Answered, IInv, TypeOK, Run
  <1> SUFFICES ASSUME NEW e \in Event, e = run[d].event PROVE Promise!Next \/ UNCHANGED Promise!vars
    BY <1>0
  <1>1. run[d] # Free /\ run[d].left = {} /\ row' = [row EXCEPT ![e] = w] /\ UNCHANGED <<answered, failures>>
    BY DEF Verdict, Answered, history
  <1>2. /\ run[d] \in Run
        /\ \/ w.status = "pending"
           \/ w.status = "dead" /\ failures[e] = MaxAttempts
           \/ w.status = "done" /\ answered[e] = Handles[e]
    BY <1>1, WrittenFacts
  <1> HIDE DEF w
  <1>3. e \in Event /\ row \in [Event -> Row]
    BY <1>2 DEF IInv, TypeOK, Run, Row
  <1>4. row[e].status = "processing"
    BY <1>1 DEF IInv, Held
  <1>5. row'[e] = w /\ \A x \in Event : x # e => row'[x] = row[x]
    BY <1>1, <1>3
  <1>6. Shown[e] = "open" /\ Shown' = [Shown EXCEPT ![e] = Seen(w.status)]
    BY <1>3, <1>4, <1>5 DEF Shown, Seen
  <1>7. CASE w.status = "pending"
    <2>1. \A x \in Event : Seen(row'[x].status) = Seen(row[x].status)
      BY <1>4, <1>5, <1>7 DEF Seen
    <2> QED
      BY <2>1, <1>1, Stutters
  <1>8. CASE w.status = "dead" /\ failures[e] = MaxAttempts
    <2>1. Seen(w.status) = "dead"
      BY <1>8 DEF Seen
    <2>2. Promise!GiveUp(e)
      BY <1>1, <1>6, <1>8, <2>1 DEF Promise!GiveUp, Shown, Seen
    <2> QED
      BY <1>3, <2>2 DEF Promise!Next
  <1>9. CASE w.status = "done" /\ answered[e] = Handles[e]
    <2>1. Seen(w.status) = "done"
      BY <1>9 DEF Seen
    <2>2. Promise!Settle(e)
      BY <1>1, <1>6, <1>9, <2>1 DEF Promise!Settle, Shown, Seen
    <2> QED
      BY <1>3, <2>2 DEF Promise!Next
  <1> QED
    BY <1>2, <1>7, <1>8, <1>9

(* An answer of a consumer is one of the promise's, or its failure. *)
LEMMA HandleKeepsPromise ==
  ASSUME IInv, NEW d \in Drain, NEW v \in {"ok", "error", "retry"}, Handle(d, v)
  PROVE  Promise!Next \/ UNCHANGED Promise!vars
  <1>0. run[d] # Free /\ run[d].event \in Event
    BY FreeIsNone DEF Handle, IInv, TypeOK, Run
  <1> SUFFICES ASSUME NEW e \in Event, e = run[d].event PROVE Promise!Next \/ UNCHANGED Promise!vars
    BY <1>0
  <1>p. PICK c \in run[d].left : Handled(d, v, c)
    BY HandleFacts
  <1>1. /\ run[d] \in Run /\ row' = row
        /\ \/ answered' = [answered EXCEPT ![e] = @ \cup {c}] /\ failures' = failures
           \/ /\ failures' = IF run[d].failed = TRUE \/ failures[e] = MaxAttempts
                              THEN failures ELSE [failures EXCEPT ![e] = @ + 1]
              /\ answered' = answered
           \/ answered' = answered /\ failures' = failures
    BY <1>p DEF Handled
  <1>2. e \in Event /\ run[d] # Free /\ failures \in [Event -> 0..MaxAttempts] /\ MaxAttempts \in Nat
        /\ run[d].left \subseteq Consumer
    BY <1>1, FreeIsNone, BoundsAssumption DEF Run, IInv, TypeOK
  <1>3. row[e].status = "processing" /\ c \in Handles[e]
    BY <1>1, <1>2 DEF IInv, Held, RunsTrue, RunTrue
  <1>4. Shown[e] = "open" /\ Shown' = Shown
    BY <1>1, <1>2, <1>3 DEF Shown, Seen
  <1>5. \A x \in Event : Seen(row'[x].status) = Seen(row[x].status)
    BY <1>1
  <1>6. CASE answered' = [answered EXCEPT ![e] = @ \cup {c}] /\ failures' = failures
    <2>1. Promise!Answer(e, c)
      BY <1>3, <1>4, <1>6 DEF Promise!Answer, Shown, Seen
    <2> QED
      BY <2>1, <1>1, <1>2 DEF Promise!Next
  <1>7. CASE answered' = answered /\ failures' = [failures EXCEPT ![e] = @ + 1] /\ failures[e] # MaxAttempts
    <2>a. failures[e] < MaxAttempts
      BY <1>2, <1>7
    <2>1. failures' = [failures EXCEPT ![e] = IF @ < MaxAttempts THEN @ + 1 ELSE @]
      BY <2>a, <1>7
    <2>2. Promise!Fail(e)
      BY <1>4, <1>7, <2>1 DEF Promise!Fail, Shown, Seen
    <2> QED
      BY <2>2, <1>2 DEF Promise!Next
  <1>8. CASE answered' = answered /\ failures' = failures
    BY <1>5, <1>8, Stutters
  <1> QED
    BY <1>1, <1>6, <1>7, <1>8

(* Every step of the drains is a step of the promise, or none. *)
LEMMA StepKeepsPromise == IInv /\ [Next]_vars => [Promise!Next]_(Promise!vars)
  <1> SUFFICES ASSUME IInv, [Next]_vars PROVE Promise!Next \/ UNCHANGED Promise!vars
    OBVIOUS
  <1> USE DEF history
  <1>0. row \in [Event -> Row] /\ batch \in [Drain -> SUBSET Snapshot]
    BY DEF IInv, TypeOK, Row
  <1>1. ASSUME NEW e \in Event, Emit(e) PROVE Promise!Next
    <2>1. Shown[e] = "absent" /\ Shown' = [Shown EXCEPT ![e] = "open"]
      BY <1>0, <1>1 DEF Emit, Shown, Seen, Row
    <2>2. Promise!Publish(e)
      BY <1>1, <2>1 DEF Emit, Promise!Publish, Shown, Seen
    <2> QED
      BY <2>2 DEF Promise!Next
  <1>2. ASSUME NEW e \in Event, Due(e) PROVE UNCHANGED Promise!vars
    <2>1. \A x \in Event : row'[x].status = row[x].status
      BY <1>0, <1>2 DEF Due, Row
    <2> QED
      BY <2>1, <1>2, Stutters DEF Due
  <1>3. ASSUME NEW d \in Drain, NEW s \in batch[d], Claim(d, s) PROVE UNCHANGED Promise!vars
    <2>1. s.event \in Event
      BY <1>0 DEF Snapshot
    <2>2. \A x \in Event : Seen(row'[x].status) = Seen(row[x].status)
      BY <1>0, <1>3, <2>1 DEF Claim, Seen, Row
    <2> QED
      BY <2>2, <1>3, Stutters DEF Claim
  <1>4. ASSUME NEW d \in Drain, NEW s \in batch[d], NEW made \in BOOLEAN, ClaimFails(d, s, made)
        PROVE  UNCHANGED Promise!vars
    <2>1. s.event \in Event
      BY <1>0 DEF Snapshot
    <2>2. \A x \in Event : Seen(row'[x].status) = Seen(row[x].status)
      BY <1>0, <1>4, <2>1 DEF ClaimFails, Seen, Row
    <2> QED
      BY <2>2, <1>4, Stutters DEF ClaimFails
  <1>5. ASSUME NEW d \in Drain, Select(d) \/ VerdictFails(d) \/ Crash(d) PROVE UNCHANGED Promise!vars
    <2>1. UNCHANGED <<row, answered, failures>>
      BY <1>5 DEF Select, VerdictFails, Crash
    <2> QED
      BY <2>1, Stutters
  <1>6. CASE UNCHANGED vars
    <2>1. UNCHANGED <<row, answered, failures>>
      BY <1>6 DEF vars
    <2> QED
      BY <2>1, Stutters
  <1> QED
    BY <1>1, <1>2, <1>3, <1>4, <1>5, <1>6, VerdictKeepsPromise, HandleKeepsPromise
    DEF Next, Work, Claims, Answers

(* The drains implement EventPromise: done only when every consumer of the *)
(* type answered, dead only after MaxAttempts rounds of failures, and      *)
(* settled for good, whatever stale snapshots they write back.             *)
THEOREM Implements == Spec => ImplementsPromise
  <1>1. Init => Promise!Init
    <2> SUFFICES ASSUME Init PROVE Promise!Init
      OBVIOUS
    <2>1. Shown = [e \in Event |-> "absent"]
      BY DEF Init, Shown, Seen
    <2> QED
      BY <2>1 DEF Init, Shown, Seen, Promise!Init
  <1> QED
    BY <1>1, StepKeepsPromise, Invariance, PTL DEF Spec, ImplementsPromise, Promise!Spec
=============================================================================
