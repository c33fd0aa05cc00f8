--------------------------- MODULE OutboundProofs ---------------------------
(***************************************************************************)
(* Proofs about Outbound: the ledger tells what became of a message and    *)
(* the daily cap holds, for any number of intents, workers, watchdogs,     *)
(* keys and faults, and for any cap; while one process runs the watchdog,  *)
(* mishaps bound the messages that contacts get twice.                     *)
(***************************************************************************)
EXTENDS Outbound, FiniteSetTheorems, TLAPS

(* The messages of intent i under its k-th idempotency key. *)
Of(i, k) == {n \in DOMAIN message : message[n].intent = i /\ message[n].key = k}

(* An attempt holds the lock, and it began below the cap. *)
Owner == \A w \in Worker : pc[w] # "idle" => lock = w /\ SentToday < Cap

(* One message per idempotency key, none under a key that is still to come, *)
(* and a failed one under every key that was rotated away.                  *)
Keyed ==
  /\ \A m, n \in DOMAIN message :
       /\ message[n].intent \in Intent => message[n].key \in 1..key[message[n].intent]
       /\ message[n].intent \in Intent /\ message[m].intent = message[n].intent
            /\ message[m].key = message[n].key => m = n
  /\ \A i \in Intent, k \in Nat : k \in 1..(key[i] - 1) =>
       \E n \in Of(i, k) : message[n].status = "failed"
  /\ \A i \in Intent, n \in DOMAIN message :
       message[n].intent = i /\ message[n].key # key[i] => message[n].status = "failed"
  /\ \A r \in Redriver : batch[r] \subseteq DOMAIN message

(* The message of i under its current key became s. *)
Became(i, s) ==
  \/ s = "sent" /\ \E n \in Of(i, key[i]) : message[n].status = "sent"
  \/ s = "queued" /\ \E n \in Of(i, key[i]) : message[n].status # "failed"
  \/ s = "failed" /\ \E n \in Of(i, key[i]) : message[n].status = "failed"
  \/ s = "vetoed" /\ i \in blocked /\ Of(i, key[i]) = {}

Ledgered ==
  \A i \in Intent :
    /\ ledger[i] = "none" => key[i] = 1 /\ Of(i, 1) = {}
    /\ ledger[i] = "accepted" => Became(i, "sent")
    /\ ledger[i] \in {"queued", "failed", "vetoed"} => Became(i, ledger[i])

(* What an attempt knows at each of its steps. *)
Staged ==
  \A w \in Worker :
    /\ pc[w] \in {"lookup", "read", "insert", "post", "store", "settle"} =>
         ledger[intent[w]] = "requested"
    /\ pc[w] \in {"read", "insert"} => Of(intent[w], key[intent[w]]) = {}
    /\ pc[w] = "insert" => got[w] \in {"sent", "queued"}
    /\ pc[w] \in {"post", "store"} =>
         row[w] \in Of(intent[w], key[intent[w]]) /\ message[row[w]].status # "failed"
    /\ pc[w] = "store" => got[w] \in {"sent", "failed"}
    /\ pc[w] \in {"settle", "commit"} => Became(intent[w], got[w])
    /\ pc[w] = "commit" => ledger[intent[w]] = IF got[w] = "sent" THEN "accepted" ELSE got[w]

(* Only accepted intents are counted, once, when their attempt is over. *)
Counted ==
  /\ SentToday <= Cap
  /\ \A x, y \in counted : x[1] = y[1] => x = y
  /\ \A x \in counted : ledger[x[1]] = "accepted"
  /\ \A w \in Worker, x \in counted : pc[w] = "commit" => intent[w] # x[1]

IInv == TypeOK /\ Owner /\ Keyed /\ Ledgered /\ Staged /\ Counted

-----------------------------------------------------------------------------
(* What the invariant says about intents, messages and attempts. *)
LEMMA Shapes ==
  ASSUME TypeOK
  PROVE /\ \A n \in DOMAIN message : message[n] \in Row
        /\ Len(message) \in Nat /\ DOMAIN message = 1..Len(message)
        /\ SentToday \in Nat /\ Intent \cap Media = {} /\ None \notin Worker
        /\ \A w \in Worker : pc[w] # "idle" => intent[w] \in Intent
        /\ \A i \in Intent : key[i] \in 1..MaxKeys /\ key[i] \in Nat
  <1>1. message \in Seq(Row)
    BY DEF TypeOK
  <1>2. SentToday \in Nat
    BY FS_CardinalityType DEF TypeOK, SentToday
  <1>3. \A n \in DOMAIN message : message[n] \in Row
    BY <1>1
  <1>4. Len(message) \in Nat /\ DOMAIN message = 1..Len(message)
    BY <1>1
  <1> QED
    BY <1>2, <1>3, <1>4, SetsAssumption, SizesAssumption DEF TypeOK

(* The lock leaves at most one attempt at work. *)
LEMMA OthersIdle ==
  ASSUME IInv, NEW w \in Worker, pc[w] # "idle"
  PROVE lock = w /\ \A v \in Worker : v # w => pc[v] = "idle"
  BY DEF IInv, Owner

(* When an attempt ends, nobody works on the number. *)
LEMMA Ended ==
  ASSUME IInv, NEW w \in Worker, pc[w] # "idle", Release(w)
  PROVE /\ \A v \in Worker : pc'[v] = "idle"
        /\ Owner' /\ Staged'
        /\ lock' \in Worker \cup {None} /\ pc' \in [Worker -> {"idle"}]
        /\ intent' \in [Worker -> Intent \cup {None}] /\ row' \in [Worker -> Nat]
        /\ got' \in [Worker -> {"none", "vetoed"} \cup RowStatus]
        /\ \A v \in Worker : intent'[v] = None
  <1>1. TypeOK
    BY DEF IInv
  <1>2. \A v \in Worker : v # w => pc[v] = "idle" /\ intent[v] = None
    BY <1>1, OthersIdle DEF TypeOK
  <1>3. \A v \in Worker : pc'[v] = "idle" /\ intent'[v] = None
    BY <1>1, <1>2 DEF Release, TypeOK
  <1>4. pc' \in [Worker -> {"idle"}]
    BY <1>1, <1>3 DEF Release, TypeOK
  <1>5. Owner' /\ Staged'
    BY <1>3 DEF Owner, Staged
  <1> QED
    BY <1>1, <1>3, <1>4, <1>5 DEF Release, TypeOK

(* The initial states satisfy the invariant. *)
LEMMA InitInv == Init => IInv
  <1> SUFFICES ASSUME Init PROVE IInv
    OBVIOUS
  <1> USE DEF Init
  <1>1. IsFiniteSet(counted) /\ SentToday = 0
    BY FS_EmptySet DEF SentToday
  <1>2. DOMAIN message = {}
    OBVIOUS
  <1>3. TypeOK
    <2>1. message \in Seq(Row)
      OBVIOUS
    <2>2. \A f \in Fault : Bound(f) \in Nat
      BY SizesAssumption DEF Fault, Bound
    <2> QED
      BY <1>1, <1>2, <2>1, <2>2, SetsAssumption, SizesAssumption DEF TypeOK, RowStatus
  <1>4. Owner /\ Staged
    BY DEF Owner, Staged
  <1>5. Keyed
    <2>1. \A i \in Intent, k \in Nat : k \notin 1..(key[i] - 1)
      OBVIOUS
    <2> QED
      BY <1>2, <2>1 DEF Keyed
  <1>6. Ledgered
    BY <1>2 DEF Ledgered, Of
  <1>7. Counted
    BY <1>1, SizesAssumption DEF Counted
  <1> QED
    BY <1>3, <1>4, <1>5, <1>6, <1>7 DEF IInv

-----------------------------------------------------------------------------
(* A step that leaves the messages, the keys and the stop flags alone.     *)
LEMMA SameMessages ==
  ASSUME IInv, UNCHANGED <<message, key, blocked, batch>>
  PROVE /\ Keyed'
        /\ \A i \in Intent, k \in Nat : Of(i, k)' = Of(i, k)
        /\ \A i \in Intent : Of(i, key[i])' = Of(i, key[i])
        /\ \A i \in Intent : \A s : Became(i, s)' = Became(i, s)
  <1>1. Keyed
    BY DEF IInv
  <1>2. Keyed'
    BY <1>1 DEF Keyed, Of
  <1> QED
    BY <1>2 DEF Of, Became

(* A step of the watchdog or of the world: attempts and ledger stay, a     *)
(* queued message may become sent, and new messages belong to no intent.   *)
LEMMA Calm ==
  ASSUME IInv, UNCHANGED <<ledgerVars, attemptVars, lock, counted>>,
         blocked \subseteq blocked', DOMAIN message \subseteq DOMAIN message',
         \A n \in DOMAIN message :
           /\ message'[n].intent = message[n].intent /\ message'[n].key = message[n].key
           /\ \/ message'[n].status = message[n].status
              \/ message[n].status = "queued" /\ message'[n].status = "sent",
         \A n \in DOMAIN message' \ DOMAIN message : message'[n].intent \notin Intent,
         \A r \in Redriver : batch'[r] \subseteq DOMAIN message'
  PROVE Owner' /\ Keyed' /\ Ledgered' /\ Staged' /\ Counted'
  <1> USE DEF ledgerVars, attemptVars
  <1>1. TypeOK /\ Owner /\ Keyed /\ Ledgered /\ Staged /\ Counted
    BY DEF IInv
  <1>2. \A i \in Intent, k \in Nat : Of(i, k)' = Of(i, k)
    BY DEF Of
  <1>3. \A i \in Intent : Of(i, key[i])' = Of(i, key[i]) /\ key[i] \in Nat
    BY <1>1, <1>2, Shapes
  <1>4. \A i \in Intent : \A s : Became(i, s) => Became(i, s)'
    <2> SUFFICES ASSUME NEW i \in Intent, NEW s, Became(i, s) PROVE Became(i, s)'
      OBVIOUS
    <2>1. \A n \in Of(i, key[i]) : n \in DOMAIN message
      BY DEF Of
    <2>2. Of(i, key[i])' = Of(i, key[i])
      BY <1>3
    <2> QED
      BY <2>1, <2>2 DEF Became
  <1>5. Owner'
    BY <1>1 DEF Owner, SentToday
  <1>6. Keyed'
    <2>1. \A n \in DOMAIN message' : message'[n].intent \in Intent => n \in DOMAIN message
      OBVIOUS
    <2>2. \A i \in Intent, k \in Nat : k \in 1..(key[i] - 1) => \E n \in Of(i, k) : message[n].status = "failed"
      BY <1>1 DEF Keyed
    <2>3. \A i \in Intent, k \in Nat : \A n \in Of(i, k) : message[n].status = "failed" => message'[n].status = "failed"
      BY DEF Of
    <2>4. \A i \in Intent, k \in Nat : k \in 1..(key'[i] - 1) => \E n \in Of(i, k)' : message'[n].status = "failed"
      BY <1>2, <2>2, <2>3
    <2>5. \A m, n \in DOMAIN message' :
            /\ message'[n].intent \in Intent => message'[n].key \in 1..key'[message'[n].intent]
            /\ message'[n].intent \in Intent /\ message'[m].intent = message'[n].intent
                 /\ message'[m].key = message'[n].key => m = n
      BY <1>1, <2>1 DEF Keyed
    <2>6. \A i \in Intent, n \in DOMAIN message' :
            message'[n].intent = i /\ message'[n].key # key'[i] => message'[n].status = "failed"
      BY <1>1, <2>1 DEF Keyed
    <2> QED
      BY <2>4, <2>5, <2>6 DEF Keyed
  <1>7. Ledgered'
    <2> SUFFICES ASSUME NEW i \in Intent
          PROVE /\ ledger'[i] = "none" => key'[i] = 1 /\ Of(i, 1)' = {}
                /\ ledger'[i] = "accepted" => Became(i, "sent")'
                /\ ledger'[i] \in {"queued", "failed", "vetoed"} => Became(i, ledger[i])'
      BY DEF Ledgered
    <2> QED
      BY <1>1, <1>2, <1>4 DEF Ledgered
  <1>8. Staged'
    <2> SUFFICES ASSUME NEW w \in Worker, pc[w] # "idle"
          PROVE /\ pc[w] \in {"lookup", "read", "insert", "post", "store", "settle"} =>
                     ledger[intent[w]] = "requested"
                /\ pc[w] \in {"read", "insert"} => Of(intent[w], key[intent[w]])' = {}
                /\ pc[w] = "insert" => got[w] \in {"sent", "queued"}
                /\ pc[w] \in {"post", "store"} =>
                     row[w] \in Of(intent[w], key[intent[w]])' /\ message'[row[w]].status # "failed"
                /\ pc[w] = "store" => got[w] \in {"sent", "failed"}
                /\ pc[w] \in {"settle", "commit"} => Became(intent[w], got[w])'
                /\ pc[w] = "commit" => ledger[intent[w]] = IF got[w] = "sent" THEN "accepted" ELSE got[w]
      BY DEF Staged, Of, Became
    <2>1. intent[w] \in Intent
      BY <1>1, Shapes
    <2>2. \A n \in Of(intent[w], key[intent[w]]) : n \in DOMAIN message
      BY DEF Of
    <2>3. Of(intent[w], key[intent[w]])' = Of(intent[w], key[intent[w]])
      BY <1>3, <2>1
    <2>4. Became(intent[w], got[w]) => Became(intent[w], got[w])'
      <3> DEFINE i == intent[w]
                 s == got[w]
      <3>1. Became(i, s) => Became(i, s)'
        BY <1>4, <2>1 DEF Became, Of
      <3> QED
        BY <3>1
    <2> QED
      BY <1>1, <2>2, <2>3, <2>4 DEF Staged
  <1>9. Counted'
    BY <1>1 DEF Counted, SentToday
  <1> QED
    BY <1>5, <1>6, <1>7, <1>8, <1>9

-----------------------------------------------------------------------------
(* Begin: the worker takes the free lock below the cap. *)
LEMMA BeginInv == ASSUME IInv, NEW w \in Worker, NEW i \in Intent, Begin(w, i) PROVE IInv'
  <1> USE DEF Begin, ledgerVars, worldVars, tickVars
  <1>1. TypeOK /\ Owner /\ Ledgered /\ Counted
    BY DEF IInv
  <1>2. \A v \in Worker : pc[v] = "idle"
    BY <1>1, Shapes DEF Owner
  <1>3. pc'[w] = "claim" /\ \A v \in Worker : v # w => pc'[v] = "idle"
    BY <1>1, <1>2 DEF Goto, TypeOK
  <1>4. TypeOK'
    BY <1>1, SetsAssumption DEF TypeOK, Goto
  <1>5. Owner'
    BY <1>3 DEF Owner, SentToday
  <1>6. Keyed' /\ Ledgered'
    BY <1>1, SameMessages DEF Ledgered, Of, Became
  <1>7. Staged'
    BY <1>3 DEF Staged
  <1>8. Counted'
    BY <1>1, <1>3 DEF Counted, SentToday
  <1> QED
    BY <1>4, <1>5, <1>6, <1>7, <1>8 DEF IInv

(* Claim: a new key has no message yet, and a rotated one failed. *)
LEMMA ClaimInv == ASSUME IInv, NEW w \in Worker, Claim(w) PROVE IInv'
  <1> DEFINE i == intent[w]
  <1> USE DEF ledgerVars, worldVars, tickVars
  <1>0. /\ pc[w] = "claim"
        /\ UNCHANGED <<message, young, delivered, counted, blocked, mirror, up, rpc, batch, faults>>
    BY DEF Claim
  <1>1. TypeOK /\ Owner /\ Keyed /\ Ledgered /\ Staged /\ Counted
    BY DEF IInv
  <1>2. i \in Intent /\ lock = w /\ \A v \in Worker : v # w => pc[v] = "idle"
    BY <1>0, <1>1, Shapes, OthersIdle
  <1>3. \A j \in Intent : key[j] \in 1..MaxKeys /\ key[j] \in Nat
    BY <1>1, Shapes
  <1>4. \A j \in Intent, k \in Nat : Of(j, k)' = Of(j, k)
    BY <1>0 DEF Of
  <1>5. CASE ledger[i] = "none" /\ ledger' = [ledger EXCEPT ![i] = "requested"]
             /\ Goto(w, "read") /\ UNCHANGED <<key, row, got, intent, lock>>
    <2>1. pc'[w] = "read" /\ \A v \in Worker : v # w => pc'[v] = "idle"
      BY <1>1, <1>2, <1>5 DEF Goto, TypeOK
    <2>2. TypeOK'
      BY <1>0, <1>1, <1>2, <1>5 DEF TypeOK, Goto
    <2>3. Keyed' /\ \A j \in Intent : \A s : Became(j, s)' = Became(j, s)
      BY <1>0, <1>5, SameMessages
    <2>4. ledger'[i] = "requested" /\ \A j \in Intent : j # i => ledger'[j] = ledger[j]
      BY <1>1, <1>2, <1>5 DEF TypeOK
    <2>5. Ledgered'
      BY <1>0, <1>1, <1>5, <2>4 DEF Ledgered, Of, Became
    <2>6. Owner'
      BY <1>0, <1>1, <1>2, <1>5, <2>1 DEF Owner, SentToday
    <2>7. Of(i, key[i])' = {}
      BY <1>1, <1>2, <1>4, <1>5 DEF Ledgered, Of
    <2>8. Staged'
      BY <1>5, <2>1, <2>4, <2>7 DEF Staged, Of
    <2>9. Counted'
      BY <1>0, <1>1, <1>5, <2>1, <2>4 DEF Counted, SentToday
    <2> QED
      BY <2>2, <2>3, <2>5, <2>6, <2>8, <2>9 DEF IInv
  <1>6. CASE ledger[i] = "failed" /\ key[i] < MaxKeys /\ ledger' = [ledger EXCEPT ![i] = "requested"]
             /\ key' = [key EXCEPT ![i] = @ + 1]
             /\ Goto(w, "read") /\ UNCHANGED <<row, got, intent, lock>>
    <2>1. pc'[w] = "read" /\ \A v \in Worker : v # w => pc'[v] = "idle"
      BY <1>1, <1>2, <1>6 DEF Goto, TypeOK
    <2>2. key'[i] = key[i] + 1 /\ \A j \in Intent : j # i => key'[j] = key[j]
      BY <1>1, <1>2, <1>6 DEF TypeOK
    <2>3. ledger'[i] = "requested" /\ \A j \in Intent : j # i => ledger'[j] = ledger[j]
      BY <1>1, <1>2, <1>6 DEF TypeOK
    <2>4. TypeOK'
      <3>1. key[i] + 1 \in 1..MaxKeys
        BY <1>2, <1>3, <1>6, SizesAssumption
      <3> QED
        BY <1>0, <1>1, <1>2, <1>6, <3>1 DEF TypeOK, Goto
    <2>5. \E n \in Of(i, key[i]) : message[n].status = "failed"
      BY <1>1, <1>2, <1>6 DEF Ledgered, Became
    <2>6. \A n \in Of(i, key[i]) : message[n].status = "failed"
      BY <1>1, <1>2, <2>5 DEF Keyed, Of
    <2>7. Keyed'
      <3>1. \A m, n \in DOMAIN message' :
              /\ message'[n].intent \in Intent => message'[n].key \in 1..key'[message'[n].intent]
              /\ message'[n].intent \in Intent /\ message'[m].intent = message'[n].intent
                   /\ message'[m].key = message'[n].key => m = n
        <4> SUFFICES ASSUME NEW m \in DOMAIN message, NEW n \in DOMAIN message
              PROVE /\ message[n].intent \in Intent => message[n].key \in 1..key'[message[n].intent]
                    /\ message[n].intent \in Intent /\ message[m].intent = message[n].intent
                         /\ message[m].key = message[n].key => m = n
          BY <1>0
        <4>1. message[n].intent \in Intent => message[n].key \in 1..key[message[n].intent]
          BY <1>1 DEF Keyed
        <4>2. message[n].intent \in Intent => message[n].key \in 1..key'[message[n].intent]
          BY <1>3, <2>2, <4>1
        <4> QED
          BY <1>1, <4>2 DEF Keyed
      <3>2. \A j \in Intent, k \in Nat : k \in 1..(key'[j] - 1) => \E n \in Of(j, k)' : message'[n].status = "failed"
        <4> SUFFICES ASSUME NEW j \in Intent, NEW k \in Nat, k \in 1..(key'[j] - 1)
              PROVE \E n \in Of(j, k) : message[n].status = "failed"
          BY <1>0, <1>4
        <4>1. CASE j = i /\ k = key[i]
          BY <2>5, <4>1
        <4>2. CASE ~(j = i /\ k = key[i])
          <5>1. k \in 1..(key[j] - 1)
            BY <1>3, <2>2, <4>2
          <5> QED
            BY <1>1, <5>1 DEF Keyed
        <4> QED
          BY <4>1, <4>2
      <3>3. \A j \in Intent, n \in DOMAIN message' :
              message'[n].intent = j /\ message'[n].key # key'[j] => message'[n].status = "failed"
        <4> SUFFICES ASSUME NEW j \in Intent, NEW n \in DOMAIN message,
                            message[n].intent = j, message[n].key # key'[j]
              PROVE message[n].status = "failed"
          BY <1>0
        <4>1. CASE j = i /\ message[n].key = key[i]
          BY <2>6, <4>1 DEF Of
        <4>2. CASE ~(j = i /\ message[n].key = key[i])
          BY <1>1, <2>2, <4>2 DEF Keyed
        <4> QED
          BY <4>1, <4>2
      <3> QED
        BY <1>0, <1>1, <3>1, <3>2, <3>3 DEF Keyed
    <2>8. Ledgered'
      <3> SUFFICES ASSUME NEW j \in Intent
            PROVE /\ ledger'[j] = "none" => key'[j] = 1 /\ Of(j, 1)' = {}
                  /\ ledger'[j] = "accepted" => Became(j, "sent")'
                  /\ ledger'[j] \in {"queued", "failed", "vetoed"} => Became(j, ledger[j])'
        BY DEF Ledgered
      <3>1. CASE j = i
        BY <2>3, <3>1
      <3>2. CASE j # i
        BY <1>0, <1>1, <2>2, <2>3, <3>2 DEF Ledgered, Of, Became
      <3> QED
        BY <3>1, <3>2
    <2>9. Owner'
      BY <1>0, <1>1, <1>2, <1>6, <2>1 DEF Owner, SentToday
    <2>10. Of(i, key[i] + 1) = {}
      BY <1>1, <1>2, <1>3 DEF Keyed, Of
    <2>11. Staged'
      <3>1. Of(intent[w], key[intent[w]])' = {}
        BY <1>0, <1>6, <2>2, <2>10 DEF Of
      <3> QED
        BY <1>6, <2>1, <2>3, <3>1 DEF Staged
    <2>12. Counted'
      BY <1>0, <1>1, <1>6, <2>1, <2>3 DEF Counted, SentToday
    <2> QED
      BY <2>4, <2>7, <2>8, <2>9, <2>11, <2>12 DEF IInv
  <1>7. CASE ledger[i] = "requested" /\ Goto(w, "lookup")
             /\ UNCHANGED <<ledger, key, row, got, intent, lock>>
    <2>1. pc'[w] = "lookup" /\ \A v \in Worker : v # w => pc'[v] = "idle"
      BY <1>1, <1>2, <1>7 DEF Goto, TypeOK
    <2>2. TypeOK'
      BY <1>0, <1>1, <1>7 DEF TypeOK, Goto
    <2>3. Keyed' /\ Ledgered'
      BY <1>0, <1>1, <1>7, SameMessages DEF Ledgered, Of, Became
    <2>4. Owner'
      BY <1>0, <1>1, <1>2, <1>7, <2>1 DEF Owner, SentToday
    <2>5. Staged'
      BY <1>7, <2>1 DEF Staged
    <2>6. Counted'
      BY <1>0, <1>1, <1>7, <2>1 DEF Counted, SentToday
    <2> QED
      BY <2>2, <2>3, <2>4, <2>5, <2>6 DEF IInv
  <1>8. CASE Release(w) /\ UNCHANGED <<ledger, key>>
    <2>1. \A v \in Worker : pc'[v] = "idle"
      BY <1>0, <1>8, Ended
    <2>2. TypeOK'
      BY <1>0, <1>1, <1>8, Ended DEF TypeOK
    <2>3. Keyed' /\ Ledgered'
      BY <1>0, <1>1, <1>8, SameMessages DEF Ledgered, Of, Became
    <2>4. Counted'
      BY <1>0, <1>1, <1>8, <2>1 DEF Counted, SentToday
    <2> QED
      BY <1>0, <1>8, <2>2, <2>3, <2>4, Ended DEF IInv
  <1> QED
    BY <1>5, <1>6, <1>7, <1>8 DEF Claim

-----------------------------------------------------------------------------
(* An attempt moves on, and messages, keys and ledger stay. *)
LEMMA MovesOn ==
  ASSUME IInv, NEW w \in Worker, pc[w] # "idle", NEW label, label # "idle", label # "commit", Goto(w, label),
         UNCHANGED <<ledgerVars, message, counted, blocked, lock, intent, row, batch>>
  PROVE /\ pc'[w] = label /\ \A v \in Worker : v # w => pc'[v] = "idle"
        /\ Owner' /\ Keyed' /\ Ledgered' /\ Counted'
  <1> USE DEF ledgerVars
  <1>1. TypeOK /\ Owner /\ Ledgered /\ Counted
    BY DEF IInv
  <1>2. lock = w /\ \A v \in Worker : v # w => pc[v] = "idle"
    BY OthersIdle
  <1>3. pc'[w] = label /\ \A v \in Worker : v # w => pc'[v] = "idle"
    BY <1>1, <1>2 DEF Goto, TypeOK
  <1>4. Keyed' /\ Ledgered'
    BY <1>1, SameMessages DEF Ledgered, Of, Became
  <1>5. Owner'
    BY <1>1, <1>2, <1>3 DEF Owner, SentToday
  <1>6. Counted'
    BY <1>1, <1>3 DEF Counted, SentToday
  <1> QED
    BY <1>3, <1>4, <1>5, <1>6

(* Lookup: the answer is the status of the message of this key. *)
LEMMA LookupInv == ASSUME IInv, NEW w \in Worker, Lookup(w) PROVE IInv'
  <1> DEFINE i == intent[w]
             k == key[intent[w]]
  <1> USE DEF ledgerVars, worldVars, tickVars
  <1>0. /\ pc[w] = "lookup"
        /\ UNCHANGED <<ledger, key, message, young, delivered, counted, blocked, mirror, up, lock, intent, row,
                       rpc, batch, faults>>
    BY DEF Lookup
  <1>1. TypeOK /\ Staged
    BY DEF IInv
  <1>2. i \in Intent /\ ledger[i] = "requested"
    BY <1>0, <1>1, Shapes DEF Staged
  <1>3. CASE Of(i, k) = {} /\ Goto(w, "read") /\ UNCHANGED got
    <2>1. pc'[w] = "read" /\ \A v \in Worker : v # w => pc'[v] = "idle"
      BY <1>0, <1>3, MovesOn
    <2>2. TypeOK'
      BY <1>0, <1>1, <1>3 DEF TypeOK, Goto
    <2>3. Staged'
      BY <1>0, <1>2, <1>3, <2>1 DEF Staged, Of
    <2> QED
      BY <1>0, <1>3, <2>2, <2>3, MovesOn DEF IInv
  <1>4. CASE \E n \in Of(i, k) : Got(w, message[n].status) /\ Goto(w, "settle")
    <2>1. PICK n \in Of(i, k) : Got(w, message[n].status) /\ Goto(w, "settle")
      BY <1>4
    <2>2. n \in DOMAIN message /\ message[n].status \in RowStatus
      BY <1>1, Shapes DEF Of, Row
    <2>3. got'[w] = message[n].status
      BY <1>1, <2>1 DEF Got, TypeOK
    <2>4. pc'[w] = "settle" /\ \A v \in Worker : v # w => pc'[v] = "idle"
      BY <1>0, <2>1, MovesOn
    <2>5. TypeOK'
      BY <1>0, <1>1, <2>1, <2>2 DEF TypeOK, Goto, Got
    <2>6. Became(i, got'[w])
      BY <2>2, <2>3 DEF Became, RowStatus
    <2>7. Became(intent[w], got[w])'
      BY <1>0, <2>6 DEF Became, Of
    <2>8. Staged'
      BY <1>0, <1>2, <2>4, <2>7 DEF Staged
    <2> QED
      BY <1>0, <2>1, <2>5, <2>8, MovesOn DEF IInv
  <1> QED
    BY <1>3, <1>4 DEF Lookup, Of

(* HandlerReads: a blocked contact is a veto, and no message was stored. *)
LEMMA HandlerReadsInv == ASSUME IInv, NEW w \in Worker, HandlerReads(w) PROVE IInv'
  <1> DEFINE i == intent[w]
  <1> USE DEF ledgerVars, worldVars, tickVars
  <1>0. /\ pc[w] = "read"
        /\ UNCHANGED <<ledger, key, message, young, delivered, counted, blocked, mirror, up, lock, intent, row,
                       rpc, batch, faults>>
    BY DEF HandlerReads
  <1>1. TypeOK /\ Staged
    BY DEF IInv
  <1>2. i \in Intent /\ ledger[i] = "requested" /\ Of(i, key[i]) = {}
    BY <1>0, <1>1, Shapes DEF Staged
  <1>3. CASE i \in blocked /\ Got(w, "vetoed") /\ Goto(w, "settle")
    <2>1. pc'[w] = "settle" /\ \A v \in Worker : v # w => pc'[v] = "idle"
      BY <1>0, <1>3, MovesOn
    <2>2. got'[w] = "vetoed"
      BY <1>1, <1>3 DEF Got, TypeOK
    <2>3. TypeOK'
      BY <1>0, <1>1, <1>3 DEF TypeOK, Goto, Got
    <2>4. Became(i, "vetoed")
      BY <1>2, <1>3 DEF Became
    <2>5. Became(intent[w], got[w])'
      BY <1>0, <2>2, <2>4 DEF Became, Of
    <2>6. Staged'
      BY <1>0, <1>2, <2>1, <2>5 DEF Staged
    <2> QED
      BY <1>0, <1>3, <2>3, <2>6, MovesOn DEF IInv
  <1>4. CASE Got(w, IF mirror THEN "sent" ELSE "queued") /\ Goto(w, "insert")
    <2>1. pc'[w] = "insert" /\ \A v \in Worker : v # w => pc'[v] = "idle"
      BY <1>0, <1>4, MovesOn
    <2>2. got'[w] \in {"sent", "queued"}
      BY <1>1, <1>4 DEF Got, TypeOK
    <2>3. TypeOK'
      BY <1>0, <1>1, <1>4 DEF TypeOK, Goto, Got, RowStatus
    <2>4. Staged'
      BY <1>0, <1>2, <2>1, <2>2 DEF Staged, Of
    <2> QED
      BY <1>0, <1>4, <2>3, <2>4, MovesOn DEF IInv
  <1> QED
    BY <1>3, <1>4 DEF HandlerReads

(* The first message of a requested intent under its key. *)
LEMMA InsertKeeps ==
  ASSUME IInv, NEW i \in Intent, ledger[i] = "requested", Of(i, key[i]) = {},
         InsertRow(i, key[i]), UNCHANGED <<ledger, key, blocked, batch>>
  PROVE /\ message' \in Seq(Row) /\ young' \subseteq DOMAIN message'
        /\ Len(message) + 1 \in Of(i, key[i])' /\ message'[Len(message) + 1].status = "queued"
        /\ Keyed' /\ Ledgered'
  <1> DEFINE new == Len(message) + 1
  <1>1. TypeOK /\ Keyed /\ Ledgered
    BY DEF IInv
  <1>2. Len(message) \in Nat /\ DOMAIN message = 1..Len(message) /\ key[i] \in 1..MaxKeys /\ key[i] \in Nat
    BY <1>1, Shapes
  <1>3. [intent |-> i, key |-> key[i], status |-> "queued"] \in Row
    BY <1>2 DEF Row, RowStatus
  <1>4. /\ message' \in Seq(Row) /\ DOMAIN message' = DOMAIN message \cup {new} /\ new \notin DOMAIN message
        /\ message'[new] = [intent |-> i, key |-> key[i], status |-> "queued"]
        /\ \A n \in DOMAIN message : message'[n] = message[n]
    BY <1>1, <1>2, <1>3 DEF InsertRow, TypeOK
  <1>5. young' \subseteq DOMAIN message'
    BY <1>1, <1>4 DEF InsertRow, TypeOK
  <1>6. new \in Of(i, key[i])' /\ message'[new].status = "queued"
    BY <1>4 DEF Of
  <1>7. \A j \in Intent, k \in Nat : Of(j, k) \subseteq Of(j, k)' /\ (~(j = i /\ k = key[i]) => Of(j, k)' = Of(j, k))
    BY <1>4 DEF Of
  <1>8. Keyed'
    <2>1. \A m, n \in DOMAIN message' :
            /\ message'[n].intent \in Intent => message'[n].key \in 1..key[message'[n].intent]
            /\ message'[n].intent \in Intent /\ message'[m].intent = message'[n].intent
                 /\ message'[m].key = message'[n].key => m = n
      <3> SUFFICES ASSUME NEW m \in DOMAIN message', NEW n \in DOMAIN message'
            PROVE /\ message'[n].intent \in Intent => message'[n].key \in 1..key[message'[n].intent]
                  /\ message'[n].intent \in Intent /\ message'[m].intent = message'[n].intent
                       /\ message'[m].key = message'[n].key => m = n
        OBVIOUS
      <3>1. message'[n].intent \in Intent => message'[n].key \in 1..key[message'[n].intent]
        <4>1. CASE n = new
          BY <1>2, <1>4, <4>1
        <4>2. CASE n \in DOMAIN message
          BY <1>1, <1>4, <4>2 DEF Keyed
        <4> QED
          BY <1>4, <4>1, <4>2
      <3>2. \A o \in DOMAIN message : ~(message[o].intent = i /\ message[o].key = key[i])
        BY DEF Of
      <3>3. message'[n].intent \in Intent /\ message'[m].intent = message'[n].intent
              /\ message'[m].key = message'[n].key => m = n
        <4>1. CASE m = new \/ n = new
          BY <1>4, <3>2, <4>1
        <4>2. CASE m \in DOMAIN message /\ n \in DOMAIN message
          BY <1>1, <1>4, <4>2 DEF Keyed
        <4> QED
          BY <1>4, <4>1, <4>2
      <3> QED
        BY <3>1, <3>3
    <2>2. \A j \in Intent, k \in Nat : k \in 1..(key[j] - 1) => \E n \in Of(j, k)' : message'[n].status = "failed"
      <3> SUFFICES ASSUME NEW j \in Intent, NEW k \in Nat, k \in 1..(key[j] - 1)
            PROVE \E n \in Of(j, k)' : message'[n].status = "failed"
        OBVIOUS
      <3>1. PICK n \in Of(j, k) : message[n].status = "failed"
        BY <1>1 DEF Keyed
      <3> QED
        BY <1>4, <1>7, <3>1 DEF Of
    <2>3. \A j \in Intent, n \in DOMAIN message' :
            message'[n].intent = j /\ message'[n].key # key[j] => message'[n].status = "failed"
      BY <1>1, <1>4 DEF Keyed
    <2>4. \A r \in Redriver : batch[r] \subseteq DOMAIN message'
      BY <1>1, <1>4 DEF Keyed
    <2> QED
      BY <2>1, <2>2, <2>3, <2>4 DEF Keyed
  <1>9. Ledgered'
    <2> SUFFICES ASSUME NEW j \in Intent, ledger[j] # "requested"
          PROVE /\ ledger[j] = "none" => key[j] = 1 /\ Of(j, 1)' = {}
                /\ ledger[j] = "accepted" => Became(j, "sent")'
                /\ ledger[j] \in {"queued", "failed", "vetoed"} => Became(j, ledger[j])'
      BY DEF Ledgered, Of, Became
    <2>1. j # i /\ key[j] \in Nat
      BY <1>1, Shapes
    <2>2. Of(j, 1)' = Of(j, 1) /\ Of(j, key[j])' = Of(j, key[j])
      BY <1>7, <2>1
    <2>3. \A n \in Of(j, key[j]) : message'[n] = message[n]
      BY <1>4 DEF Of
    <2>4. \A s : Became(j, s) => Became(j, s)'
      BY <2>2, <2>3 DEF Became
    <2> QED
      BY <1>1, <2>2, <2>4 DEF Ledgered
  <1> QED
    BY <1>4, <1>5, <1>6, <1>8, <1>9

(* HandlerInserts. *)
LEMMA HandlerInsertsInv == ASSUME IInv, NEW w \in Worker, HandlerInserts(w) PROVE IInv'
  <1> DEFINE i == intent[w]
             new == Len(message) + 1
  <1> USE DEF ledgerVars, worldVars, tickVars
  <1>0. /\ pc[w] = "insert" /\ InsertRow(i, key[i])
        /\ UNCHANGED <<ledger, key, delivered, counted, blocked, mirror, up, lock, intent, got, rpc, batch, faults>>
    BY DEF HandlerInserts
  <1>1. TypeOK /\ Owner /\ Staged /\ Counted
    BY DEF IInv
  <1>2. /\ i \in Intent /\ lock = w /\ ledger[i] = "requested" /\ Of(i, key[i]) = {}
        /\ got[w] \in {"sent", "queued"} /\ \A v \in Worker : v # w => pc[v] = "idle"
    BY <1>0, <1>1, Shapes, OthersIdle DEF Staged
  <1>3. /\ message' \in Seq(Row) /\ young' \subseteq DOMAIN message'
        /\ new \in Of(i, key[i])' /\ message'[new].status = "queued" /\ Keyed' /\ Ledgered'
    BY <1>0, <1>2, InsertKeeps
  <1>4. Len(message) \in Nat
    BY <1>1, Shapes
  <1>5. row'[w] = new /\ pc'[w] \in {"post", "settle"} /\ (pc'[w] = "settle" => got[w] = "queued")
    BY <1>1, <1>2 DEF HandlerInserts, Goto, TypeOK
  <1>6. \A v \in Worker : v # w => pc'[v] = "idle"
    BY <1>1, <1>2 DEF HandlerInserts, Goto, TypeOK
  <1>7. TypeOK'
    BY <1>0, <1>1, <1>2, <1>3, <1>4 DEF TypeOK, HandlerInserts, Goto
  <1>8. Owner'
    BY <1>0, <1>1, <1>2, <1>6 DEF Owner, SentToday
  <1>9. Staged'
    <2>1. pc'[w] = "settle" => Became(intent[w], got[w])'
      BY <1>0, <1>3, <1>5 DEF Became
    <2> QED
      BY <1>0, <1>2, <1>3, <1>5, <1>6, <2>1 DEF Staged
  <1>10. Counted'
    BY <1>0, <1>1, <1>5, <1>6 DEF Counted, SentToday
  <1> QED
    BY <1>3, <1>7, <1>8, <1>9, <1>10 DEF IInv

(* HandlerPosts: the message keeps its status until the answer is stored. *)
LEMMA HandlerPostsInv == ASSUME IInv, NEW w \in Worker, HandlerPosts(w) PROVE IInv'
  <1> DEFINE i == intent[w]
  <1> USE DEF ledgerVars, worldVars, tickVars
  <1>0. /\ pc[w] = "post" /\ Goto(w, "store")
        /\ UNCHANGED <<ledger, key, message, young, counted, blocked, mirror, up, lock, intent, row, rpc, batch>>
    BY DEF HandlerPosts
  <1>1. TypeOK /\ Staged
    BY DEF IInv
  <1>2. i \in Intent
    BY <1>0, <1>1, Shapes
  <1>3. /\ Got(w, "sent") \/ Got(w, "failed")
        /\ delivered' = delivered \/ delivered' = [delivered EXCEPT ![i] = @ + 1]
        /\ faults' = faults \/ \E f \in Fault : Suffer(f)
    BY DEF HandlerPosts, Fault
  <1>4. pc'[w] = "store" /\ \A v \in Worker : v # w => pc'[v] = "idle"
    BY <1>0, MovesOn
  <1>5. got'[w] \in {"sent", "failed"} /\ got' \in [Worker -> {"none", "vetoed"} \cup RowStatus]
    BY <1>1, <1>3 DEF Got, TypeOK, RowStatus
  <1>6. delivered' \in [Intent \cup Media -> Nat]
    <2>1. delivered \in [Intent \cup Media -> Nat] /\ i \in Intent \cup Media
      BY <1>1, <1>2 DEF TypeOK
    <2>2. CASE delivered' = delivered
      BY <2>1, <2>2
    <2>3. CASE delivered' = [delivered EXCEPT ![i] = @ + 1]
      BY <2>1, <2>3
    <2> QED
      BY <1>3, <2>2, <2>3
  <1>7. faults' \in [Fault -> Nat] /\ \A f \in Fault : faults'[f] <= Bound(f)
    BY <1>1, <1>3, SizesAssumption DEF TypeOK, Suffer, Bound
  <1>8. TypeOK'
    BY <1>0, <1>1, <1>5, <1>6, <1>7 DEF TypeOK, Goto, Bound
  <1>9. Staged'
    BY <1>0, <1>1, <1>4, <1>5 DEF Staged, Of
  <1> QED
    BY <1>0, <1>8, <1>9, MovesOn DEF IInv

(* HandlerStores: only the message of this attempt learns its outcome. *)
LEMMA HandlerStoresInv == ASSUME IInv, NEW w \in Worker, HandlerStores(w) PROVE IInv'
  <1> DEFINE i == intent[w]
             n == row[w]
  <1> USE DEF ledgerVars, worldVars, tickVars
  <1>0. /\ pc[w] = "store" /\ Goto(w, "settle")
        /\ UNCHANGED <<ledger, key, young, delivered, counted, blocked, mirror, up, lock, intent, row, rpc, batch>>
    BY DEF HandlerStores
  <1>1. TypeOK /\ Owner /\ Keyed /\ Ledgered /\ Staged /\ Counted
    BY DEF IInv
  <1>2. /\ i \in Intent /\ lock = w /\ ledger[i] = "requested" /\ \A v \in Worker : v # w => pc[v] = "idle"
        /\ n \in Of(i, key[i]) /\ n \in DOMAIN message /\ message[n].status # "failed" /\ got[w] \in {"sent", "failed"}
    BY <1>0, <1>1, Shapes, OthersIdle DEF Staged, Of
  <1>3. pc'[w] = "settle" /\ \A v \in Worker : v # w => pc'[v] = "idle"
    BY <1>0, <1>1, <1>2 DEF Goto, TypeOK
  <1>4. CASE Suffer("mishap") /\ Got(w, "queued") /\ UNCHANGED message
    <2>1. got'[w] = "queued"
      BY <1>1, <1>4 DEF Got, TypeOK
    <2>2. faults' \in [Fault -> Nat] /\ \A f \in Fault : faults'[f] <= Bound(f)
      BY <1>1, <1>4, SizesAssumption DEF TypeOK, Suffer, Bound, Fault
    <2>3. TypeOK'
      BY <1>0, <1>1, <1>4, <2>2 DEF TypeOK, Goto, Got, RowStatus, Bound
    <2>4. Became(intent[w], got[w])'
      BY <1>0, <1>2, <1>4, <2>1 DEF Became, Of
    <2>5. Staged'
      BY <1>0, <1>2, <1>3, <2>4 DEF Staged
    <2> QED
      BY <1>0, <1>4, <2>3, <2>5, MovesOn DEF IInv
  <1>5. CASE message' = [message EXCEPT ![n].status = got[w]] /\ UNCHANGED <<got, faults>>
    <2>1. message[n] \in Row
      BY <1>1, <1>2, Shapes
    <2>2. message'[n] = [message[n] EXCEPT !.status = got[w]] /\ DOMAIN message' = DOMAIN message
          /\ \A m \in DOMAIN message : m # n => message'[m] = message[m]
      BY <1>1, <1>2, <1>5 DEF TypeOK
    <2>3. message'[n] \in Row /\ message'[n].intent = i /\ message'[n].key = key[i] /\ message'[n].status = got[w]
      BY <1>2, <2>1, <2>2 DEF Row, RowStatus, Of
    <2>4. message' \in Seq(Row)
      BY <1>1, <1>2, <1>5, <2>2, <2>3 DEF TypeOK
    <2>5. \A m \in DOMAIN message : message'[m].intent = message[m].intent /\ message'[m].key = message[m].key
      BY <1>2, <2>2, <2>3 DEF Of
    <2>6. \A j \in Intent, k \in Nat : Of(j, k)' = Of(j, k)
      BY <2>2, <2>5 DEF Of
    <2>7. \A j \in Intent, k \in Nat : ~(j = i /\ k = key[i]) => n \notin Of(j, k)
      BY <1>2 DEF Of
    <2>8. TypeOK'
      BY <1>0, <1>1, <1>5, <2>2, <2>4 DEF TypeOK, Goto, Bound
    <2>9. Keyed'
      <3>1. \A m, o \in DOMAIN message' :
              /\ message'[o].intent \in Intent => message'[o].key \in 1..key[message'[o].intent]
              /\ message'[o].intent \in Intent /\ message'[m].intent = message'[o].intent
                   /\ message'[m].key = message'[o].key => m = o
        BY <1>1, <2>2, <2>5 DEF Keyed
      <3>2. \A j \in Intent, k \in Nat : k \in 1..(key[j] - 1) => \E o \in Of(j, k)' : message'[o].status = "failed"
        <4> SUFFICES ASSUME NEW j \in Intent, NEW k \in Nat, k \in 1..(key[j] - 1)
              PROVE \E o \in Of(j, k) : message'[o].status = "failed"
          BY <2>6
        <4>1. PICK o \in Of(j, k) : message[o].status = "failed"
          BY <1>1 DEF Keyed
        <4> QED
          BY <1>2, <2>2, <4>1 DEF Of
      <3>3. \A j \in Intent, o \in DOMAIN message' :
              message'[o].intent = j /\ message'[o].key # key[j] => message'[o].status = "failed"
        <4> SUFFICES ASSUME NEW j \in Intent, NEW o \in DOMAIN message,
                            message'[o].intent = j, message'[o].key # key[j]
              PROVE message'[o].status = "failed"
          BY <2>2
        <4>1. o # n
          BY <2>3
        <4>2. message'[o] = message[o]
          BY <2>2, <4>1
        <4> QED
          BY <1>1, <4>2 DEF Keyed
      <3> QED
        BY <1>0, <1>1, <2>2, <3>1, <3>2, <3>3 DEF Keyed
    <2>10. Ledgered'
      <3> SUFFICES ASSUME NEW j \in Intent, ledger[j] # "requested"
            PROVE /\ ledger[j] = "none" => key[j] = 1 /\ Of(j, 1)' = {}
                  /\ ledger[j] = "accepted" => Became(j, "sent")'
                  /\ ledger[j] \in {"queued", "failed", "vetoed"} => Became(j, ledger[j])'
        BY <1>0 DEF Ledgered, Of, Became
      <3>1. j # i /\ key[j] \in Nat
        BY <1>1, <1>2, Shapes
      <3>2. Of(j, 1)' = Of(j, 1) /\ Of(j, key[j])' = Of(j, key[j]) /\ n \notin Of(j, key[j])
        BY <1>0, <2>6, <2>7, <3>1
      <3>3. \A m \in Of(j, key[j]) : message'[m] = message[m]
        BY <2>2, <3>2 DEF Of
      <3>4. \A s : Became(j, s) => Became(j, s)'
        BY <1>0, <3>2, <3>3 DEF Became
      <3> QED
        <4>1. /\ ledger[j] = "none" => key[j] = 1 /\ Of(j, 1) = {}
              /\ ledger[j] = "accepted" => Became(j, "sent")
              /\ ledger[j] \in {"queued", "failed", "vetoed"} => Became(j, ledger[j])
          BY <1>1 DEF Ledgered
        <4>2. Became(j, "sent") => Became(j, "sent")'
          BY <3>4
        <4>3. Became(j, ledger[j]) => Became(j, ledger[j])'
          BY <1>0, <3>2, <3>3 DEF Became
        <4> QED
          BY <3>2, <4>1, <4>2, <4>3
    <2>11. Owner' /\ Counted'
      BY <1>0, <1>1, <1>2, <1>3 DEF Owner, Counted, SentToday
    <2>12. Staged'
      <3>1. Of(i, key[i])' = Of(i, key[i])
        BY <1>0, <1>2, <2>2, <2>5 DEF Of
      <3>2. Became(intent[w], got[w])'
        BY <1>0, <1>2, <1>5, <2>3, <3>1 DEF Became
      <3> QED
        BY <1>0, <1>2, <1>3, <3>2 DEF Staged
    <2> QED
      BY <2>8, <2>9, <2>10, <2>11, <2>12 DEF IInv
  <1> QED
    BY <1>4, <1>5 DEF HandlerStores

(* Settle: the ledger learns what became of the message. *)
LEMMA SettleInv == ASSUME IInv, NEW w \in Worker, Settle(w) PROVE IInv'
  <1> DEFINE i == intent[w]
             s == got[w]
             outcome == IF s = "sent" THEN "accepted" ELSE s
  <1> USE DEF ledgerVars, worldVars, tickVars
  <1>0. /\ pc[w] = "settle" /\ Goto(w, "commit") /\ ledger' = [ledger EXCEPT ![i] = outcome]
        /\ UNCHANGED <<key, message, young, delivered, counted, blocked, mirror, up, lock, intent, row, got,
                       rpc, batch, faults>>
    BY DEF Settle
  <1>1. TypeOK /\ Owner /\ Keyed /\ Ledgered /\ Staged /\ Counted
    BY DEF IInv
  <1>2. /\ i \in Intent /\ lock = w /\ ledger[i] = "requested" /\ \A v \in Worker : v # w => pc[v] = "idle"
        /\ Became(i, s)
    BY <1>0, <1>1, Shapes, OthersIdle DEF Staged
  <1>3. pc'[w] = "commit" /\ \A v \in Worker : v # w => pc'[v] = "idle"
    BY <1>0, <1>1, <1>2 DEF Goto, TypeOK
  <1>4. ledger'[i] = outcome /\ \A j \in Intent : j # i => ledger'[j] = ledger[j]
    BY <1>0, <1>1, <1>2 DEF TypeOK
  <1>5. s \in {"sent", "queued", "failed", "vetoed"}
    BY <1>2 DEF Became
  <1>6. TypeOK'
    BY <1>0, <1>1, <1>5 DEF TypeOK, Goto
  <1>7. Keyed' /\ Became(i, s)'
    BY <1>0, <1>2, SameMessages DEF Became, Of
  <1>8. Ledgered'
    <2> SUFFICES ASSUME NEW j \in Intent
          PROVE /\ ledger'[j] = "none" => key'[j] = 1 /\ Of(j, 1)' = {}
                /\ ledger'[j] = "accepted" => Became(j, "sent")'
                /\ ledger'[j] \in {"queued", "failed", "vetoed"} => Became(j, ledger[j])'
      BY DEF Ledgered
    <2>1. CASE j = i
      BY <1>0, <1>2, <1>4, <1>5, <2>1 DEF Became, Of
    <2>2. CASE j # i
      BY <1>0, <1>1, <1>4, <2>2 DEF Ledgered, Of, Became
    <2> QED
      BY <2>1, <2>2
  <1>9. Owner'
    BY <1>0, <1>1, <1>2, <1>3 DEF Owner, SentToday
  <1>10. Staged'
    <2>1. Became(intent[w], got[w])'
      BY <1>0, <1>2 DEF Became, Of
    <2> QED
      BY <1>0, <1>3, <1>4, <2>1 DEF Staged
  <1>11. Counted'
    BY <1>0, <1>1, <1>2, <1>3, <1>4 DEF Counted, SentToday
  <1> QED
    BY <1>6, <1>7, <1>8, <1>9, <1>10, <1>11 DEF IInv

(* Commit: one row more for an intent that has none, still below the cap. *)
LEMMA CommitInv == ASSUME IInv, NEW w \in Worker, Commit(w) PROVE IInv'
  <1> DEFINE i == intent[w]
             own == {x \in counted : x[1] = i}
  <1> USE DEF ledgerVars, worldVars, tickVars
  <1>0. /\ pc[w] = "commit" /\ Release(w)
        /\ counted' = IF got[w] # "sent" THEN counted ELSE counted \cup {<<i, Cardinality(own)>>}
        /\ UNCHANGED <<ledger, key, message, young, delivered, blocked, mirror, up, rpc, batch, faults>>
    BY DEF Commit
  <1>1. TypeOK /\ Owner /\ Ledgered /\ Staged /\ Counted
    BY DEF IInv
  <1>2. i \in Intent /\ SentToday < Cap /\ SentToday \in Nat
    BY <1>0, <1>1, Shapes DEF Owner
  <1>3. own = {}
    BY <1>0, <1>1 DEF Counted
  <1>4. Cardinality(own) = 0
    BY <1>3, FS_EmptySet
  <1>5. \A v \in Worker : pc'[v] = "idle"
    BY <1>0, Ended
  <1>6. CASE got[w] # "sent"
    <2>1. UNCHANGED counted
      BY <1>0, <1>6
    <2>2. TypeOK'
      BY <1>0, <1>1, <2>1, Ended DEF TypeOK
    <2>3. Counted'
      BY <1>0, <1>1, <1>5, <2>1 DEF Counted, SentToday
    <2> QED
      BY <1>0, <1>1, <2>2, <2>3, Ended, SameMessages DEF IInv, Ledgered, Of, Became
  <1>7. CASE got[w] = "sent"
    <2>1. counted' = counted \cup {<<i, 0>>} /\ <<i, 0>> \notin counted
      BY <1>0, <1>3, <1>4, <1>7
    <2>2. IsFiniteSet(counted') /\ Cardinality(counted') = SentToday + 1
      BY <1>1, <2>1, FS_AddElement DEF TypeOK, SentToday
    <2>3. TypeOK'
      BY <1>0, <1>1, <1>2, <2>1, <2>2, Ended DEF TypeOK
    <2>4. ledger[i] = "accepted"
      BY <1>0, <1>1, <1>7 DEF Staged
    <2>5. \A x \in counted' : (x \in counted /\ x[1] # i) \/ x = <<i, 0>>
      BY <1>3, <2>1
    <2>6. \A x, y \in counted' : x[1] = y[1] => x = y
      BY <1>1, <2>5 DEF Counted
    <2>7. \A x \in counted' : ledger'[x[1]] = "accepted"
      BY <1>0, <1>1, <2>4, <2>5 DEF Counted
    <2>8. SentToday' <= Cap
      BY <1>2, <2>2, SizesAssumption DEF SentToday
    <2>9. Counted'
      BY <1>5, <2>6, <2>7, <2>8 DEF Counted
    <2> QED
      BY <1>0, <1>1, <2>3, <2>9, Ended, SameMessages DEF IInv, Ledgered, Of, Became
  <1> QED
    BY <1>6, <1>7

(* A fault more stays within its bound. *)
LEMMA SufferTyped ==
  ASSUME TypeOK, NEW f \in Fault, Suffer(f)
  PROVE faults' \in [Fault -> Nat] /\ \A g \in Fault : faults'[g] <= Bound(g)
  <1>1. Bound(f) \in Nat /\ faults \in [Fault -> Nat] /\ faults[f] < Bound(f)
    BY SizesAssumption DEF TypeOK, Suffer, Bound
  <1>2. faults' = [faults EXCEPT ![f] = @ + 1]
    BY DEF Suffer
  <1>3. faults' \in [Fault -> Nat] /\ faults'[f] <= Bound(f)
    BY <1>1, <1>2
  <1> QED
    BY <1>1, <1>2, <1>3 DEF TypeOK

(* AttemptFails and WorkerCrashes: the lock is free, the ledger keeps what *)
(* was written, and an insert may have left its row.                       *)
LEMMA AttemptFailsInv == ASSUME IInv, NEW w \in Worker, AttemptFails(w) \/ WorkerCrashes(w) PROVE IInv'
  <1> DEFINE i == intent[w]
  <1> USE DEF ledgerVars, worldVars, tickVars
  <1>0. /\ pc[w] # "idle" /\ Suffer("mishap") /\ Release(w)
        /\ UNCHANGED <<ledger, key, delivered, counted, blocked, mirror, up, rpc, batch>>
        /\ \/ UNCHANGED <<message, young>>
           \/ pc[w] = "insert" /\ InsertRow(i, key[i])
    BY DEF AttemptFails, WorkerCrashes
  <1>1. TypeOK /\ Staged /\ Counted /\ Ledgered
    BY DEF IInv
  <1>2. \A v \in Worker : pc'[v] = "idle"
    BY <1>0, Ended
  <1>3. faults' \in [Fault -> Nat] /\ \A g \in Fault : faults'[g] <= Bound(g)
    BY <1>0, <1>1, SufferTyped DEF Fault
  <1>4. Counted'
    BY <1>0, <1>1, <1>2 DEF Counted, SentToday
  <1>5. message' \in Seq(Row) /\ young' \subseteq DOMAIN message' /\ Keyed' /\ Ledgered'
    <2>1. CASE UNCHANGED <<message, young>>
      BY <1>0, <1>1, <2>1, SameMessages DEF TypeOK, Ledgered, Of, Became
    <2>2. CASE pc[w] = "insert" /\ InsertRow(i, key[i])
      <3>1. i \in Intent /\ ledger[i] = "requested" /\ Of(i, key[i]) = {}
        BY <1>1, <2>2, Shapes DEF Staged
      <3> QED
        BY <1>0, <2>2, <3>1, InsertKeeps
    <2> QED
      BY <1>0, <2>1, <2>2
  <1>6. TypeOK'
    BY <1>0, <1>1, <1>3, <1>5, Ended DEF TypeOK, Bound
  <1> QED
    BY <1>0, <1>4, <1>5, <1>6, Ended DEF IInv

-----------------------------------------------------------------------------
(* The watchdog and the world, by the lemma Calm. *)
LEMMA SelectInv == ASSUME IInv, NEW r \in Redriver, Select(r) PROVE IInv'
  <1> USE DEF Select, ledgerVars, worldVars, attemptVars
  <1>1. TypeOK /\ Keyed
    BY DEF IInv
  <1>2. batch'[r] \subseteq DOMAIN message /\ \A q \in Redriver : q # r => batch'[q] = batch[q]
    BY <1>1 DEF TypeOK, Redrivable
  <1>3. \A q \in Redriver : batch'[q] \subseteq DOMAIN message'
    BY <1>1, <1>2 DEF Keyed
  <1>4. DOMAIN message \subseteq Nat
    BY <1>1, Shapes
  <1>5. TypeOK'
    BY <1>1, <1>2, <1>4 DEF TypeOK, Redrivable
  <1> QED
    BY <1>3, <1>5, Calm DEF IInv

(* The tick takes a message off its batch. *)
LEMMA NextTyped ==
  ASSUME IInv, NEW r \in Redriver, NEW n, NextOfBatch(r, n)
  PROVE /\ batch' \in [Redriver -> SUBSET Nat] /\ rpc' \in [Redriver -> {"idle", "post", "store"}]
        /\ \A q \in Redriver : batch'[q] \subseteq DOMAIN message
  BY DEF IInv, TypeOK, Keyed, NextOfBatch

LEMMA RedriverPostsInv ==
  ASSUME IInv, NEW r \in Redriver, NEW n \in batch[r], RedriverPosts(r, n) PROVE IInv'
  <1> DEFINE i == message[n].intent
  <1>0. UNCHANGED <<ledgerVars, message, young, counted, blocked, mirror, up, lock, attemptVars>>
    BY DEF RedriverPosts
  <1>1. TypeOK /\ Keyed
    BY DEF IInv
  <1>2. n \in DOMAIN message /\ i \in Intent \cup Media
    BY <1>1, Shapes DEF Keyed, Row
  <1>3. delivered' \in [Intent \cup Media -> Nat]
    <2>1. delivered \in [Intent \cup Media -> Nat]
      BY <1>1 DEF TypeOK
    <2>2. delivered' = delivered \/ delivered' = [delivered EXCEPT ![i] = @ + 1]
      BY DEF RedriverPosts
    <2>3. CASE delivered' = [delivered EXCEPT ![i] = @ + 1]
      BY <1>2, <2>1, <2>3
    <2> QED
      BY <2>1, <2>2, <2>3
  <1>4. \/ rpc' = [rpc EXCEPT ![r] = "store"] /\ UNCHANGED batch
        \/ NextOfBatch(r, n)
    BY DEF RedriverPosts
  <1>5. /\ batch' \in [Redriver -> SUBSET Nat] /\ rpc' \in [Redriver -> {"idle", "post", "store"}]
        /\ \A q \in Redriver : batch'[q] \subseteq DOMAIN message
    BY <1>1, <1>4, NextTyped DEF TypeOK, Keyed
  <1>6. UNCHANGED faults \/ Suffer("mishap") \/ Suffer("outage")
    BY DEF RedriverPosts
  <1>7. faults' \in [Fault -> Nat] /\ \A g \in Fault : faults'[g] <= Bound(g)
    <2>1. CASE UNCHANGED faults
      BY <1>1, <2>1 DEF TypeOK
    <2> QED
      BY <1>1, <1>6, <2>1, SufferTyped DEF Fault
  <1>8. TypeOK'
    BY <1>0, <1>1, <1>3, <1>5, <1>7 DEF TypeOK, Bound, ledgerVars, attemptVars
  <1> QED
    BY <1>0, <1>5, <1>8, Calm DEF IInv

LEMMA RedriverStoresInv ==
  ASSUME IInv, NEW r \in Redriver, NEW n \in batch[r], RedriverStores(r, n) PROVE IInv'
  <1>0. UNCHANGED <<ledgerVars, young, worldVars, lock, attemptVars>> /\ NextOfBatch(r, n)
    BY DEF RedriverStores
  <1>1. TypeOK /\ Keyed
    BY DEF IInv
  <1>2. n \in DOMAIN message /\ message[n] \in Row /\ message \in Seq(Row)
    BY <1>1, Shapes DEF Keyed, TypeOK
  <1>3. /\ batch' \in [Redriver -> SUBSET Nat] /\ rpc' \in [Redriver -> {"idle", "post", "store"}]
        /\ \A q \in Redriver : batch'[q] \subseteq DOMAIN message
    BY <1>0, NextTyped
  <1>4. /\ faults' \in [Fault -> Nat] /\ \A g \in Fault : faults'[g] <= Bound(g)
    <2>1. UNCHANGED faults \/ Suffer("mishap")
      BY DEF RedriverStores
    <2>2. CASE UNCHANGED faults
      BY <1>1, <2>2 DEF TypeOK
    <2> QED
      BY <1>1, <2>1, <2>2, SufferTyped DEF Fault
  <1>5. \/ UNCHANGED message
        \/ message[n].status = "queued" /\ message' = [message EXCEPT ![n].status = "sent"]
    BY DEF RedriverStores
  <1>6. /\ message' \in Seq(Row) /\ DOMAIN message' = DOMAIN message
        /\ \A m \in DOMAIN message :
             /\ message'[m].intent = message[m].intent /\ message'[m].key = message[m].key
             /\ \/ message'[m].status = message[m].status
                \/ message[m].status = "queued" /\ message'[m].status = "sent"
    <2>1. CASE message[n].status = "queued" /\ message' = [message EXCEPT ![n].status = "sent"]
      <3>1. message'[n] = [message[n] EXCEPT !.status = "sent"] /\ DOMAIN message' = DOMAIN message
            /\ \A m \in DOMAIN message : m # n => message'[m] = message[m]
        BY <1>2, <2>1
      <3>2. message'[n] \in Row /\ message'[n].intent = message[n].intent /\ message'[n].key = message[n].key
            /\ message'[n].status = "sent"
        BY <1>2, <3>1 DEF Row, RowStatus
      <3>3. message' \in Seq(Row)
        BY <1>2, <2>1, <3>2, <3>1
      <3> QED
        BY <2>1, <3>1, <3>2, <3>3
    <2> QED
      BY <1>2, <1>5, <2>1
  <1>7. TypeOK'
    BY <1>0, <1>1, <1>3, <1>4, <1>6 DEF TypeOK, Bound, ledgerVars, worldVars, attemptVars
  <1> QED
    BY <1>0, <1>3, <1>6, <1>7, Calm DEF IInv, worldVars

LEMMA RedriverCrashesInv == ASSUME IInv, NEW r \in Redriver, RedriverCrashes(r) PROVE IInv'
  <1> USE DEF RedriverCrashes, ledgerVars, worldVars, attemptVars
  <1>1. TypeOK /\ Keyed
    BY DEF IInv
  <1>2. \A q \in Redriver : batch'[q] \subseteq DOMAIN message'
    BY <1>1 DEF Keyed, TypeOK
  <1>3. faults' \in [Fault -> Nat] /\ \A g \in Fault : faults'[g] <= Bound(g)
    BY <1>1, SufferTyped DEF Fault
  <1>4. TypeOK'
    BY <1>1, <1>3 DEF TypeOK, Bound
  <1> QED
    BY <1>2, <1>4, Calm DEF IInv

(* Reconcile, OptOut, SessionChanges and Ages change no message. *)
LEMMA WorldInv ==
  ASSUME IInv,
         \/ Reconcile \/ SessionChanges
         \/ \E i \in Intent \cup Media : OptOut(i)
         \/ \E n \in young : Ages(n)
  PROVE IInv'
  <1> USE DEF ledgerVars, worldVars, attemptVars, tickVars
  <1>1. TypeOK /\ Keyed
    BY DEF IInv
  <1>2. /\ UNCHANGED <<ledger, key, message, delivered, counted, lock, pc, intent, row, got, rpc, batch>>
        /\ mirror' \in BOOLEAN /\ up' \in BOOLEAN
        /\ blocked \subseteq blocked' /\ blocked' \subseteq Intent \cup Media
        /\ young' \subseteq DOMAIN message
    BY <1>1 DEF TypeOK, Reconcile, SessionChanges, OptOut, Ages
  <1>3. UNCHANGED faults \/ Suffer("mishap") \/ Suffer("outage")
    BY DEF Reconcile, SessionChanges, OptOut, Ages
  <1>4. faults' \in [Fault -> Nat] /\ \A g \in Fault : faults'[g] <= Bound(g)
    <2>1. CASE UNCHANGED faults
      BY <1>1, <2>1 DEF TypeOK
    <2> QED
      BY <1>1, <1>3, <2>1, SufferTyped DEF Fault
  <1>5. TypeOK'
    BY <1>1, <1>2, <1>4 DEF TypeOK, Bound
  <1>6. \A q \in Redriver : batch'[q] \subseteq DOMAIN message'
    BY <1>1, <1>2 DEF Keyed
  <1> QED
    BY <1>2, <1>5, <1>6, Calm DEF IInv

(* QueueMedia: the new message belongs to no intent. *)
LEMMA QueueMediaInv == ASSUME IInv, NEW x \in Media, QueueMedia(x) PROVE IInv'
  <1> USE DEF QueueMedia, ledgerVars, worldVars, attemptVars, tickVars
  <1>1. TypeOK /\ Keyed
    BY DEF IInv
  <1>2. Len(message) \in Nat /\ DOMAIN message = 1..Len(message) /\ x \notin Intent
    BY <1>1, Shapes
  <1>3. [intent |-> x, key |-> 1, status |-> "queued"] \in Row
    BY DEF Row, RowStatus
  <1>4. /\ message' \in Seq(Row) /\ DOMAIN message' = DOMAIN message \cup {Len(message) + 1}
        /\ Len(message) + 1 \notin DOMAIN message /\ message'[Len(message) + 1].intent = x
        /\ \A n \in DOMAIN message : message'[n] = message[n]
    BY <1>1, <1>2, <1>3 DEF InsertRow, TypeOK
  <1>5. TypeOK'
    BY <1>1, <1>4 DEF TypeOK, InsertRow, Bound
  <1>6. \A q \in Redriver : batch'[q] \subseteq DOMAIN message'
    BY <1>1, <1>4 DEF Keyed
  <1> QED
    BY <1>2, <1>4, <1>5, <1>6, Calm DEF IInv

-----------------------------------------------------------------------------
(* Every step keeps the invariant. *)
LEMMA NextInv == IInv /\ [Next]_vars => IInv'
  <1> SUFFICES ASSUME IInv, [Next]_vars PROVE IInv'
    OBVIOUS
  <1>1. CASE UNCHANGED vars
    <2> USE DEF vars, ledgerVars, worldVars, attemptVars, tickVars
    <2>1. TypeOK /\ Keyed
      BY DEF IInv
    <2>2. TypeOK'
      BY <1>1, <2>1 DEF TypeOK, Bound
    <2>3. \A q \in Redriver : batch'[q] \subseteq DOMAIN message'
      BY <1>1, <2>1 DEF Keyed
    <2> QED
      BY <1>1, <2>2, <2>3, Calm DEF IInv
  <1>2. CASE \E w \in Worker, i \in Intent : Begin(w, i)
    BY <1>2, BeginInv
  <1>3. CASE \E w \in Worker : AttemptStep(w)
    BY <1>3, ClaimInv, LookupInv, HandlerReadsInv, HandlerInsertsInv, HandlerPostsInv, HandlerStoresInv,
       SettleInv, CommitInv DEF AttemptStep
  <1>4. CASE \E w \in Worker : AttemptFails(w) \/ WorkerCrashes(w)
    BY <1>4, AttemptFailsInv
  <1>5. CASE \E r \in Redriver : RedriveStep(r)
    BY <1>5, SelectInv, RedriverPostsInv, RedriverStoresInv DEF RedriveStep
  <1>6. CASE \E r \in Redriver : RedriverCrashes(r)
    BY <1>6, RedriverCrashesInv
  <1>7. CASE \/ Reconcile \/ SessionChanges
             \/ \E i \in Intent \cup Media : OptOut(i)
             \/ \E n \in young : Ages(n)
    BY <1>7, WorldInv
  <1>8. CASE \E x \in Media : QueueMedia(x)
    BY <1>8, QueueMediaInv
  <1> QED
    BY <1>1, <1>2, <1>3, <1>4, <1>5, <1>6, <1>7, <1>8 DEF Next

LEMMA Invariance == Spec => []IInv
  BY InitInv, NextInv, PTL DEF Spec

(* Types: every variable of the sends keeps its range, and only an attempt *)
(* under way has an intent.                                                *)
THEOREM TypeCorrect == Spec => []TypeOK
  <1>1. IInv => TypeOK
    BY DEF IInv
  <1> QED
    BY <1>1, Invariance, PTL

(* The number's daily cap holds however many workers race for it, and no   *)
(* send is counted twice: the gates read the count under the lock that the *)
(* attempt keeps until it has counted its own message.                     *)
THEOREM CapSafety == Spec => []CapHolds
  <1>1. IInv => CapHolds
    BY DEF IInv, Counted, CapHolds
  <1> QED
    BY <1>1, Invariance, PTL

(* The ledger tells the truth about the message through crashes, failed    *)
(* statements, retries and a watchdog that sends behind the turn's back.   *)
THEOREM LedgerSafety == Spec => []LedgerIsHonest
  <1>1. ASSUME IInv PROVE LedgerIsHonest
    <2>1. TypeOK /\ Keyed /\ Ledgered
      BY <1>1 DEF IInv
    <2> SUFFICES ASSUME NEW i \in Intent
          PROVE LET mine(k) == {message[n].status : n \in Of(i, k)}
                IN /\ ledger[i] = "none" => mine(1) = {}
                   /\ ledger[i] = "accepted" => mine(key[i]) = {"sent"}
                   /\ ledger[i] = "queued" => mine(key[i]) # {} /\ "failed" \notin mine(key[i])
                   /\ ledger[i] = "failed" => mine(key[i]) = {"failed"}
                   /\ ledger[i] = "vetoed" => i \in blocked /\ mine(key[i]) = {}
                   /\ \A k \in 1..(key[i] - 1) : mine(k) = {"failed"}
      BY DEF LedgerIsHonest, Of
    <2> DEFINE mine(k) == {message[n].status : n \in Of(i, k)}
    <2>2. \A k : \A m, n \in Of(i, k) : m = n
      BY <2>1 DEF Keyed, Of
    <2>3. \A k : \A n \in Of(i, k) : mine(k) = {message[n].status}
      BY <2>2
    <2>4. ledger[i] = "none" => mine(1) = {}
      BY <2>1 DEF Ledgered
    <2>5. ledger[i] = "accepted" => mine(key[i]) = {"sent"}
      BY <2>1, <2>3 DEF Ledgered, Became
    <2>6. ledger[i] = "queued" => mine(key[i]) # {} /\ "failed" \notin mine(key[i])
      <3> SUFFICES ASSUME ledger[i] = "queued" PROVE mine(key[i]) # {} /\ "failed" \notin mine(key[i])
        OBVIOUS
      <3>1. PICK n \in Of(i, key[i]) : message[n].status # "failed"
        BY <2>1 DEF Ledgered, Became
      <3>2. mine(key[i]) = {message[n].status}
        BY <2>3
      <3> QED
        BY <3>1, <3>2
    <2>7. ledger[i] = "failed" => mine(key[i]) = {"failed"}
      BY <2>1, <2>3 DEF Ledgered, Became
    <2>8. ledger[i] = "vetoed" => i \in blocked /\ mine(key[i]) = {}
      BY <2>1 DEF Ledgered, Became
    <2>9. \A k \in 1..(key[i] - 1) : mine(k) = {"failed"}
      <3> SUFFICES ASSUME NEW k \in 1..(key[i] - 1) PROVE mine(k) = {"failed"}
        OBVIOUS
      <3>1. k \in Nat
        BY <2>1, Shapes
      <3>2. PICK n \in Of(i, k) : message[n].status = "failed"
        BY <2>1, <3>1 DEF Keyed
      <3> QED
        BY <2>3, <3>2
    <2> QED
      BY <2>4, <2>5, <2>6, <2>7, <2>8, <2>9
  <1> QED
    BY <1>1, Invariance, PTL

-----------------------------------------------------------------------------
(* What a message may still cost: with one watchdog, every delivery but    *)
(* the first of an intent is paid for by a mishap.  An intent is worth the *)
(* deliveries it had and those it may still have; no step makes it worth   *)
(* more, except a mishap, and that only one intent by one.                 *)

(* A batch holds a message of i that the tick has not sent yet. *)
InBatch(i) ==
  \E r \in Redriver : \E n \in batch[r] :
    message[n].intent = i /\ ~(rpc[r] = "store" /\ At(r, n))

(* The turn is about to send i, or will take it for failed. *)
InCall(i) ==
  \E w \in Worker : intent[w] = i /\ (pc[w] = "post" \/ (pc[w] = "store" /\ got[w] = "failed"))

(* The turn that inserted message n is sending it. *)
Calling(n) == \E w \in Worker : row[w] = n /\ pc[w] \in {"post", "store"}

(* A queued message of i may still come into a batch. *)
Loose(i) ==
  \E n \in DOMAIN message :
    /\ message[n].intent = i /\ message[n].status = "queued"
    /\ \A r \in Redriver : n \notin batch[r]
    /\ ~(n \in young /\ Calling(n))

(* A turn may insert a message of i. *)
ToSend(i) == \A n \in Of(i, key[i]) : message[n].status = "failed"

One(b) == IF b THEN 1 ELSE 0

Worth(i) == delivered[i] + One(InBatch(i)) + One(InCall(i)) + One(Loose(i)) + One(ToSend(i))

Extra(f) == UNION {{i} \X (2..f[i]) : i \in Intent}
Owed == Extra([i \in Intent |-> Worth(i)])

(* A batch is of one tick, and no intent has two messages in it; a media   *)
(* without a text is never sent.                                           *)
Batched ==
  /\ \A r \in Redriver :
       /\ rpc[r] = "idle" => batch[r] = {}
       /\ \A n \in batch[r] : n \notin young
       /\ \A m, n \in batch[r] :
            message[n].intent \in Intent /\ message[m].intent = message[n].intent => m = n
  /\ \A x \in Media : delivered[x] = 0

Afforded == IsFiniteSet(Owed) /\ Cardinality(Owed) <= faults["mishap"]

(* A step that makes no intent worth more, and one that pays for i. *)
Cheap ==
  /\ faults'["mishap"] >= faults["mishap"]
  /\ \A x \in Intent : Worth(x)' <= Worth(x)
PaidFor(i) ==
  /\ faults'["mishap"] = faults["mishap"] + 1
  /\ \A x \in Intent : Worth(x)' <= Worth(x) + One(x = i)
Solvent == Batched' /\ (Cheap \/ \E i \in Intent : PaidFor(i))

LEMMA ExtraShrinks ==
  ASSUME NEW f \in [Intent -> Nat], NEW g \in [Intent -> Nat], IsFiniteSet(Extra(f)),
         \A i \in Intent : g[i] <= f[i]
  PROVE IsFiniteSet(Extra(g)) /\ Cardinality(Extra(g)) <= Cardinality(Extra(f))
  <1>1. Extra(g) \subseteq Extra(f)
    <2> SUFFICES ASSUME NEW i \in Intent, NEW k \in 2..g[i] PROVE <<i, k>> \in Extra(f)
      BY DEF Extra
    <2>1. k \in 2..f[i]
      OBVIOUS
    <2> QED
      BY <2>1 DEF Extra
  <1> QED
    BY <1>1, FS_Subset

LEMMA ExtraGrows ==
  ASSUME NEW f \in [Intent -> Nat], NEW g \in [Intent -> Nat], IsFiniteSet(Extra(f)),
         NEW i \in Intent, \A x \in Intent : g[x] <= f[x] + One(x = i)
  PROVE IsFiniteSet(Extra(g)) /\ Cardinality(Extra(g)) <= Cardinality(Extra(f)) + 1
  <1> DEFINE more == Extra(f) \cup {<<i, f[i] + 1>>}
  <1>1. /\ IsFiniteSet(more) /\ Cardinality(Extra(f)) \in Nat
        /\ Cardinality(more) = Cardinality(Extra(f)) \/ Cardinality(more) = Cardinality(Extra(f)) + 1
    BY FS_AddElement, FS_CardinalityType
  <1>2. Extra(g) \subseteq more
    <2> SUFFICES ASSUME NEW x \in Intent, NEW k \in 2..g[x] PROVE <<x, k>> \in more
      BY DEF Extra
    <2>1. g[x] <= f[x] + One(x = i) /\ g[x] \in Nat /\ f[x] \in Nat
      OBVIOUS
    <2>2. CASE k \in 2..f[x]
      BY <2>2 DEF Extra
    <2>3. CASE k \notin 2..f[x]
      <3>1. x = i /\ k = f[x] + 1
        BY <2>1, <2>3 DEF One
      <3> QED
        BY <3>1
    <2> QED
      BY <2>2, <2>3
  <1>3. IsFiniteSet(Extra(g)) /\ Cardinality(Extra(g)) <= Cardinality(more)
    BY <1>1, <1>2, FS_Subset
  <1>4. Cardinality(Extra(g)) \in Nat
    BY <1>3, FS_CardinalityType
  <1> QED
    BY <1>1, <1>3, <1>4

LEMMA WorthNat ==
  TypeOK => \A i \in Intent : Worth(i) \in Nat /\ delivered[i] \in Nat /\ delivered[i] <= Worth(i)
  <1> SUFFICES ASSUME TypeOK, NEW i \in Intent
        PROVE Worth(i) \in Nat /\ delivered[i] \in Nat /\ delivered[i] <= Worth(i)
    OBVIOUS
  <1>1. delivered[i] \in Nat
    BY DEF TypeOK
  <1>2. One(InBatch(i)) \in {0, 1} /\ One(InCall(i)) \in {0, 1} /\ One(Loose(i)) \in {0, 1} /\ One(ToSend(i)) \in {0, 1}
    BY DEF One
  <1> QED
    BY <1>1, <1>2 DEF Worth

LEMMA WorthNatNext == ASSUME TypeOK' PROVE \A i \in Intent : Worth(i)' \in Nat
  <1> SUFFICES ASSUME NEW i \in Intent PROVE Worth(i)' \in Nat
    OBVIOUS
  <1>1. delivered'[i] \in Nat
    BY DEF TypeOK
  <1>2. /\ One(InBatch(i))' \in {0, 1} /\ One(InCall(i))' \in {0, 1}
        /\ One(Loose(i))' \in {0, 1} /\ One(ToSend(i))' \in {0, 1}
    BY DEF One
  <1> QED
    BY <1>1, <1>2 DEF Worth

(* Such a step keeps the account. *)
LEMMA SolventSteps == ASSUME TypeOK, TypeOK', Afforded, Solvent PROVE Afforded'
  <1> DEFINE f == [i \in Intent |-> Worth(i)]
             g == [i \in Intent |-> Worth(i)']
  <1>1. f \in [Intent -> Nat]
    BY WorthNat
  <1>2. \A i \in Intent : Worth(i)' \in Nat
    BY WorthNatNext
  <1>3. g \in [Intent -> Nat]
    BY <1>2
  <1>4. Owed = Extra(f) /\ Owed' = Extra(g)
    BY DEF Owed, Extra
  <1>5. IsFiniteSet(Extra(f)) /\ Cardinality(Extra(f)) <= faults["mishap"] /\ Cardinality(Extra(f)) \in Nat
    BY <1>4, FS_CardinalityType DEF Afforded
  <1>6. faults["mishap"] \in Nat /\ faults'["mishap"] \in Nat
    BY DEF TypeOK, Fault
  <1>7. IsFiniteSet(Extra(g)) /\ Cardinality(Extra(g)) <= faults'["mishap"]
    <2>1. CASE Cheap
      <3>1. \A i \in Intent : g[i] <= f[i]
        BY <2>1 DEF Cheap
      <3>2. IsFiniteSet(Extra(g)) /\ Cardinality(Extra(g)) <= Cardinality(Extra(f))
        BY <1>1, <1>3, <1>5, <3>1, ExtraShrinks
      <3>3. Cardinality(Extra(g)) \in Nat /\ faults'["mishap"] >= faults["mishap"]
        BY <2>1, <3>2, FS_CardinalityType DEF Cheap
      <3> QED
        BY <1>5, <1>6, <3>2, <3>3
    <2>2. CASE \E i \in Intent : PaidFor(i)
      <3>1. PICK i \in Intent : PaidFor(i)
        BY <2>2
      <3>2. \A x \in Intent : g[x] <= f[x] + One(x = i)
        BY <3>1 DEF PaidFor
      <3>3. IsFiniteSet(Extra(g)) /\ Cardinality(Extra(g)) <= Cardinality(Extra(f)) + 1
        BY <1>1, <1>3, <1>5, <3>2, ExtraGrows
      <3>4. Cardinality(Extra(g)) \in Nat /\ faults'["mishap"] = faults["mishap"] + 1
        BY <3>1, <3>3, FS_CardinalityType DEF PaidFor
      <3> QED
        BY <1>5, <1>6, <3>3, <3>4
    <2> QED
      BY <2>1, <2>2 DEF Solvent
  <1> QED
    BY <1>4, <1>7 DEF Afforded

-----------------------------------------------------------------------------
(* What an intent is worth, part by part. *)
LEMMA SameOrLess ==
  ASSUME TypeOK, NEW i \in Intent, delivered'[i] = delivered[i],
         InBatch(i)' => InBatch(i), InCall(i)' => InCall(i),
         Loose(i)' => Loose(i), ToSend(i)' => ToSend(i)
  PROVE Worth(i)' <= Worth(i)
  <1>1. delivered[i] \in Nat
    BY DEF TypeOK
  <1> QED
    BY <1>1 DEF Worth, One

LEMMA OneMore ==
  ASSUME TypeOK, NEW i \in Intent, delivered'[i] = delivered[i],
         InBatch(i)' => InBatch(i), InCall(i)' => InCall(i), ToSend(i)' => ToSend(i)
  PROVE Worth(i)' <= Worth(i) + 1
  <1>1. delivered[i] \in Nat
    BY DEF TypeOK
  <1> QED
    BY <1>1 DEF Worth, One

(* At most one message of an intent did not fail. *)
LEMMA Living ==
  ASSUME TypeOK, Keyed, NEW m \in DOMAIN message, NEW n \in DOMAIN message,
         message[n].intent \in Intent, message[m].intent = message[n].intent,
         message[m].status # "failed", message[n].status # "failed"
  PROVE m = n /\ n \in Of(message[n].intent, key[message[n].intent])
  BY DEF Keyed, Of

(* Steps that leave the messages and the calls to WAHA alone. *)
LEMMA Untouched ==
  ASSUME TypeOK, Batched, UNCHANGED <<message, young, delivered, rpc, batch>>,
         faults'["mishap"] >= faults["mishap"],
         \A n : Calling(n) => Calling(n)',
         \A i \in Intent : (InCall(i)' => InCall(i)) /\ (ToSend(i)' => ToSend(i))
  PROVE Batched' /\ Cheap
  <1>1. Batched'
    BY DEF Batched
  <1>2. ASSUME NEW i \in Intent PROVE Worth(i)' <= Worth(i)
    <2>1. InBatch(i)' => InBatch(i)
      BY DEF InBatch, At
    <2>2. Loose(i)' => Loose(i)
      BY DEF Loose
    <2> QED
      BY <2>1, <2>2, SameOrLess
  <1> QED
    BY <1>1, <1>2 DEF Cheap

LEMMA SufferMore ==
  ASSUME TypeOK
  PROVE /\ UNCHANGED faults => faults'["mishap"] >= faults["mishap"]
        /\ Suffer("outage") => faults'["mishap"] >= faults["mishap"]
        /\ Suffer("mishap") => faults'["mishap"] = faults["mishap"] + 1 /\ faults'["mishap"] >= faults["mishap"]
  <1>1. faults \in [Fault -> Nat] /\ "mishap" \in Fault /\ "outage" \in Fault
    BY DEF TypeOK, Fault
  <1>2. faults["mishap"] \in Nat
    BY <1>1
  <1> QED
    BY <1>1, <1>2 DEF Suffer

(* Attempt steps away from the call, the session and the stop flags. *)
LEMMA QuietSolvent ==
  ASSUME IInv, Batched,
         \/ \E w \in Worker, i \in Intent : Begin(w, i)
         \/ \E w \in Worker : Claim(w) \/ Lookup(w) \/ HandlerReads(w) \/ Settle(w) \/ Commit(w)
         \/ \E w \in Worker : AttemptFails(w) /\ UNCHANGED message /\ UNCHANGED young
         \/ Reconcile \/ SessionChanges \/ \E i \in Intent \cup Media : OptOut(i)
         \/ UNCHANGED vars
  PROVE Solvent
  <1> USE DEF ledgerVars, worldVars, attemptVars, tickVars
  <1>1. TypeOK
    BY DEF IInv
  <1>2. UNCHANGED faults \/ Suffer("outage") \/ Suffer("mishap")
    BY DEF Begin, Claim, Lookup, HandlerReads, Settle, Commit, AttemptFails, Reconcile, SessionChanges, OptOut, vars
  <1>3. faults'["mishap"] >= faults["mishap"]
    BY <1>1, <1>2, SufferMore
  <1>4. UNCHANGED <<message, young, delivered, rpc, batch>>
    BY DEF Begin, Claim, Lookup, HandlerReads, Settle, Commit, AttemptFails, Reconcile, SessionChanges, OptOut, vars
  <1>5. CASE UNCHANGED <<attemptVars, key>>
    <2>1. \A i \in Intent : InCall(i)' = InCall(i) /\ ToSend(i)' = ToSend(i)
      BY <1>4, <1>5 DEF InCall, ToSend, Of
    <2>2. \A n : Calling(n)' = Calling(n)
      BY <1>5 DEF Calling
    <2> QED
      BY <1>1, <1>3, <1>4, <2>1, <2>2, Untouched DEF Solvent
  <1>6. CASE \/ \E w \in Worker, i \in Intent : Begin(w, i)
             \/ \E w \in Worker : Claim(w) \/ Lookup(w) \/ HandlerReads(w) \/ Settle(w) \/ Commit(w)
             \/ \E w \in Worker : AttemptFails(w)
    <2>1. PICK w \in Worker :
            \/ \E i \in Intent : Begin(w, i)
            \/ Claim(w) \/ Lookup(w) \/ HandlerReads(w) \/ Settle(w) \/ Commit(w) \/ AttemptFails(w)
      BY <1>6
    <2>2. pc[w] \notin {"post", "store"} /\ \A v \in Worker : v # w => pc[v] = "idle"
      <3>1. CASE pc[w] = "idle"
        <4>1. lock = None
          BY <2>1, <3>1 DEF Begin, Claim, Lookup, HandlerReads, Settle, Commit, AttemptFails
        <4>2. \A v \in Worker : pc[v] = "idle"
          BY <4>1, SetsAssumption DEF IInv, Owner
        <4> QED
          BY <4>2
      <3>2. CASE pc[w] # "idle"
        <4>1. \A v \in Worker : v # w => pc[v] = "idle"
          BY <3>2, OthersIdle
        <4> QED
          BY <2>1, <3>2, <4>1 DEF Begin, Claim, Lookup, HandlerReads, Settle, Commit, AttemptFails
      <3> QED
        BY <3>1, <3>2
    <2>3. pc'[w] \notin {"post", "store"} /\ \A v \in Worker : v # w => pc'[v] = pc[v]
      BY <1>1, <2>1 DEF Begin, Claim, Lookup, HandlerReads, Settle, Commit, AttemptFails, Goto, Release, TypeOK
    <2>4. \A i \in Intent : ~InCall(i)'
      BY <2>2, <2>3 DEF InCall
    <2>5. \A n : ~Calling(n)
      BY <2>2 DEF Calling
    <2>6. ASSUME NEW i \in Intent PROVE ToSend(i)' => ToSend(i)
      <3>1. CASE key'[i] = key[i]
        BY <1>4, <3>1 DEF ToSend, Of
      <3>2. CASE key'[i] # key[i]
        <4>1. Claim(w) /\ i = intent[w] /\ ledger[i] = "failed"
          BY <1>1, <2>1, <3>2 DEF Begin, Claim, Lookup, HandlerReads, Settle, Commit, AttemptFails, TypeOK
        <4>2. \E n \in Of(i, key[i]) : message[n].status = "failed"
          BY <4>1 DEF IInv, Ledgered, Became
        <4>3. \A n \in Of(i, key[i]) : message[n].status = "failed"
          BY <4>2 DEF IInv, Keyed, Of
        <4> QED
          BY <4>3 DEF ToSend
      <3> QED
        BY <3>1, <3>2
    <2> QED
      BY <1>1, <1>3, <1>4, <2>4, <2>5, <2>6, Untouched DEF Solvent
  <1> QED
    BY <1>5, <1>6 DEF Reconcile, SessionChanges, OptOut, vars

(* A new message: one of no intent changes nothing, and one of an intent   *)
(* is the only one that may still be sent.                                 *)
LEMMA InsertShape ==
  ASSUME IInv, NEW x \in Intent \cup Media, NEW k \in Nat, InsertRow(x, k)
  PROVE LET new == Len(message) + 1
        IN /\ DOMAIN message' = DOMAIN message \cup {new} /\ new \notin DOMAIN message
           /\ message'[new].status = "queued" /\ message'[new].intent = x /\ message'[new].key = k
           /\ \A n \in DOMAIN message : message'[n] = message[n]
           /\ young' = young \cup {new}
           /\ \A r \in Redriver : batch[r] \subseteq DOMAIN message
  <1>1. TypeOK /\ Keyed
    BY DEF IInv
  <1>2. Len(message) \in Nat /\ DOMAIN message = 1..Len(message)
    BY <1>1, Shapes
  <1>3. [intent |-> x, key |-> k, status |-> "queued"] \in Row
    BY DEF Row, RowStatus
  <1> QED
    BY <1>1, <1>2, <1>3 DEF InsertRow, TypeOK, Keyed

(* What an insert leaves alone: the batches, and the worth of all others.  *)
LEMMA InsertLocal ==
  ASSUME IInv, Batched, NEW x \in Intent \cup Media, NEW k \in Nat, InsertRow(x, k),
         UNCHANGED <<key, delivered, rpc, batch>>,
         \A n \in DOMAIN message : Calling(n) => Calling(n)',
         \A i \in Intent : i # x => (InCall(i)' => InCall(i))
  PROVE /\ Batched'
        /\ \A i \in Intent : i # x => Worth(i)' <= Worth(i)
        /\ \A i \in Intent : InBatch(i)' => InBatch(i)
  <1> DEFINE new == Len(message) + 1
  <1>1. TypeOK
    BY DEF IInv
  <1>2. /\ DOMAIN message' = DOMAIN message \cup {new} /\ new \notin DOMAIN message
        /\ message'[new].status = "queued" /\ message'[new].intent = x
        /\ \A n \in DOMAIN message : message'[n] = message[n]
        /\ young' = young \cup {new}
        /\ \A r \in Redriver : batch[r] \subseteq DOMAIN message
    BY InsertShape
  <1>3. Batched'
    BY <1>2 DEF Batched
  <1>4. \A i \in Intent : InBatch(i)' => InBatch(i)
    BY <1>2 DEF InBatch, At
  <1>5. ASSUME NEW i \in Intent, i # x PROVE Worth(i)' <= Worth(i)
    <2>1. Loose(i)' => Loose(i)
      BY <1>2, <1>5 DEF Loose
    <2>2. ToSend(i)' => ToSend(i)
      BY <1>2, <1>5 DEF ToSend, Of
    <2> QED
      BY <1>1, <1>4, <1>5, <2>1, <2>2, SameOrLess
  <1> QED
    BY <1>3, <1>4, <1>5

LEMMA QueueMediaSolvent == ASSUME IInv, Batched, NEW x \in Media, QueueMedia(x) PROVE Solvent
  <1> USE DEF ledgerVars, worldVars, attemptVars, tickVars
  <1>1. TypeOK
    BY DEF IInv
  <1>2. InsertRow(x, 1) /\ UNCHANGED <<key, delivered, rpc, batch, attemptVars, faults>>
    BY DEF QueueMedia
  <1>3. \A i \in Intent : InCall(i)' = InCall(i)
    BY <1>2 DEF InCall
  <1>4. \A n : Calling(n)' = Calling(n)
    BY <1>2 DEF Calling
  <1>5. Batched' /\ \A i \in Intent : i # x => Worth(i)' <= Worth(i)
    BY <1>2, <1>3, <1>4, InsertLocal
  <1> QED
    BY <1>1, <1>2, <1>5, SetsAssumption, SufferMore DEF Solvent, Cheap

(* HandlerInserts, or an insert whose answer is lost: what was to be       *)
(* inserted is now in the call or left to the watchdog.                    *)
LEMMA InsertSolvent ==
  ASSUME IInv, Batched, NEW w \in Worker, pc[w] = "insert",
         HandlerInserts(w) \/ (AttemptFails(w) /\ InsertRow(intent[w], key[intent[w]]))
  PROVE Solvent
  <1> USE DEF ledgerVars, worldVars, attemptVars, tickVars
  <1>0. PICK new : new = Len(message) + 1
    OBVIOUS
  <1>1. TypeOK /\ Keyed /\ Staged
    BY DEF IInv
  <1>2. intent[w] \in Intent /\ \A v \in Worker : v # w => pc[v] = "idle"
    BY <1>1, Shapes, OthersIdle
  <1>3. PICK i \in Intent : i = intent[w]
    BY <1>2
  <1>4. key[i] \in Nat /\ InsertRow(i, key[i]) /\ UNCHANGED <<key, delivered, rpc, batch>>
    BY <1>1, <1>3, Shapes DEF HandlerInserts, AttemptFails
  <1>5. faults'["mishap"] >= faults["mishap"]
    BY <1>1, SufferMore DEF HandlerInserts, AttemptFails
  <1>6. \A v \in Worker : v # w => pc'[v] = "idle"
    BY <1>1, <1>2 DEF HandlerInserts, AttemptFails, Goto, Release, TypeOK
  <1>7. \/ pc'[w] \notin {"post", "store"}
        \/ pc'[w] = "post" /\ row'[w] = new /\ intent'[w] = i
    BY <1>0, <1>1, <1>3 DEF HandlerInserts, AttemptFails, Goto, Release, TypeOK
  <1>8. \A n : ~Calling(n)
    BY <1>2 DEF Calling
  <1>9. \A j \in Intent : ~InCall(j) /\ (j # i => ~InCall(j)')
    BY <1>2, <1>6, <1>7 DEF InCall
  <1>10. /\ Batched' /\ \A j \in Intent : j # i => Worth(j)' <= Worth(j)
         /\ InBatch(i)' => InBatch(i)
    BY <1>4, <1>8, <1>9, InsertLocal
  <1>11. /\ DOMAIN message' = DOMAIN message \cup {new} /\ new \notin DOMAIN message
         /\ message'[new].status = "queued" /\ message'[new].intent = i /\ message'[new].key = key[i]
         /\ \A n \in DOMAIN message : message'[n] = message[n]
         /\ young' = young \cup {new}
    BY <1>0, <1>4, InsertShape
  <1>12. Of(i, key[i]) = {} /\ ToSend(i)
    BY <1>1, <1>3 DEF Staged, ToSend
  <1>13. ~ToSend(i)'
    BY <1>4, <1>11 DEF ToSend, Of
  <1>14. ~(InCall(i)' /\ Loose(i)')
    <2> SUFFICES ASSUME InCall(i)', Loose(i)' PROVE FALSE
      OBVIOUS
    <2>1. pc'[w] = "post" /\ row'[w] = new
      BY <1>6, <1>7 DEF InCall
    <2>2. Calling(new)' /\ new \in young'
      BY <1>11, <2>1 DEF Calling
    <2>3. PICK n \in DOMAIN message' : /\ message'[n].intent = i /\ message'[n].status = "queued"
                                       /\ ~(n \in young' /\ Calling(n)')
      BY DEF Loose
    <2>4. n \in DOMAIN message /\ message[n].intent = i /\ message[n].status = "queued"
      BY <1>11, <2>2, <2>3
    <2> QED
      BY <1>1, <1>12, <2>4 DEF Keyed, Of
  <1>15. Worth(i)' <= Worth(i)
    <2>1. delivered[i] \in Nat /\ delivered'[i] = delivered[i]
      BY <1>1, <1>4 DEF TypeOK
    <2>2. /\ InBatch(i)' => InBatch(i)
          /\ ~InCall(i)
          /\ ToSend(i) /\ ~ToSend(i)'
      BY <1>9, <1>10, <1>12, <1>13
    <2> QED
      BY <1>14, <2>1, <2>2 DEF Worth, One
  <1> QED
    BY <1>5, <1>10, <1>15 DEF Solvent, Cheap

-----------------------------------------------------------------------------
(* HandlerPosts: the call delivers what the intent was worth; a call that  *)
(* delivers and looks failed is paid for.                                  *)
LEMMA PostSolvent == ASSUME IInv, Batched, NEW w \in Worker, HandlerPosts(w) PROVE Solvent
  <1> USE DEF ledgerVars, worldVars, attemptVars, tickVars
  <1>1. TypeOK /\ Keyed /\ Staged
    BY DEF IInv
  <1>2. pc[w] = "post" /\ UNCHANGED <<key, message, young, row, intent, rpc, batch>>
    BY DEF HandlerPosts
  <1>3. intent[w] \in Intent /\ \A v \in Worker : v # w => pc[v] = "idle"
    BY <1>1, <1>2, Shapes, OthersIdle
  <1>4. PICK i \in Intent : i = intent[w]
    BY <1>3
  <1>5. i \notin Media /\ delivered \in [Intent \cup Media -> Nat]
    BY <1>1, SetsAssumption DEF TypeOK
  <1>6. pc'[w] = "store" /\ \A v \in Worker : v # w => pc'[v] = pc[v] /\ pc'[v] = "idle"
    BY <1>1, <1>3 DEF HandlerPosts, Goto, TypeOK
  <1>7. \A n : Calling(n)' = Calling(n)
    BY <1>2, <1>3, <1>6 DEF Calling
  <1>8. \A j \in Intent : /\ InBatch(j)' = InBatch(j) /\ Loose(j)' = Loose(j) /\ ToSend(j)' = ToSend(j)
                          /\ (j # i => ~InCall(j)')
    <2>1. \A j \in Intent : InBatch(j)' = InBatch(j)
      BY <1>2 DEF InBatch, At
    <2>2. \A j \in Intent : Loose(j)' = Loose(j)
      BY <1>2, <1>7 DEF Loose
    <2>3. \A j \in Intent : ToSend(j)' = ToSend(j)
      BY <1>2 DEF ToSend, Of
    <2>4. \A j \in Intent : j # i => ~InCall(j)'
      BY <1>2, <1>4, <1>6 DEF InCall
    <2> QED
      BY <2>1, <2>2, <2>3, <2>4
  <1>9. InCall(i)
    BY <1>2, <1>4 DEF InCall
  <1>10. ASSUME \A j \in Media : delivered'[j] = delivered[j] PROVE Batched'
    BY <1>2, <1>10 DEF Batched, HandlerPosts
  <1>11. \/ delivered' = [delivered EXCEPT ![i] = @ + 1] /\ Got(w, "sent") /\ UNCHANGED faults
         \/ delivered' = [delivered EXCEPT ![i] = @ + 1] /\ Suffer("mishap")
         \/ Suffer("outage") /\ UNCHANGED delivered
         \/ UNCHANGED <<delivered, faults>>
    BY <1>4 DEF HandlerPosts
  <1>12. CASE delivered' = [delivered EXCEPT ![i] = @ + 1]
    <2>1. delivered'[i] = delivered[i] + 1 /\ \A j \in Intent \cup Media : j # i => delivered'[j] = delivered[j]
      BY <1>5, <1>12
    <2>2. Batched'
      BY <1>5, <1>10, <2>1
    <2>3. ASSUME NEW j \in Intent, j # i PROVE Worth(j)' <= Worth(j)
      BY <1>1, <1>8, <2>1, <2>3, SameOrLess
    <2>4. CASE Got(w, "sent") /\ UNCHANGED faults
      <3>1. ~InCall(i)'
        BY <1>1, <1>6, <2>4 DEF InCall, Got, TypeOK
      <3>2. Worth(i)' <= Worth(i)
        BY <1>5, <1>8, <1>9, <2>1, <3>1 DEF Worth, One
      <3> QED
        BY <1>1, <2>2, <2>3, <2>4, <3>2, SufferMore DEF Solvent, Cheap
    <2>5. CASE Suffer("mishap")
      <3>1. Worth(i)' <= Worth(i) + 1
        BY <1>5, <1>8, <1>9, <2>1 DEF Worth, One
      <3>2. \A j \in Intent : Worth(j) \in Nat /\ Worth(j)' <= Worth(j) + One(j = i)
        BY <1>1, <2>3, <3>1, WorthNat DEF One
      <3> QED
        BY <1>1, <2>2, <2>5, <3>2, SufferMore DEF Solvent, PaidFor
    <2> QED
      BY <1>5, <1>11, <2>1, <2>4, <2>5
  <1>13. CASE UNCHANGED delivered
    <2>1. faults'["mishap"] >= faults["mishap"]
      BY <1>1, <1>11, SufferMore
    <2>2. \A j \in Intent : Worth(j)' <= Worth(j)
      BY <1>1, <1>8, <1>9, <1>13, SameOrLess
    <2> QED
      BY <1>10, <1>13, <2>1, <2>2 DEF Solvent, Cheap
  <1> QED
    BY <1>11, <1>12, <1>13

(* HandlerStores: an intent that is taken for failed may be sent anew.     *)
LEMMA StoreSolvent == ASSUME IInv, Batched, NEW w \in Worker, HandlerStores(w) PROVE Solvent
  <1> USE DEF ledgerVars, worldVars, attemptVars, tickVars
  <1>1. TypeOK /\ Keyed /\ Staged
    BY DEF IInv
  <1>2. pc[w] = "store" /\ UNCHANGED <<key, delivered, young, row, intent, rpc, batch>>
    BY DEF HandlerStores
  <1>3. intent[w] \in Intent /\ \A v \in Worker : v # w => pc[v] = "idle"
    BY <1>1, <1>2, Shapes, OthersIdle
  <1>4. PICK i \in Intent : i = intent[w]
    BY <1>3
  <1>5. PICK n : n = row[w]
    OBVIOUS
  <1>6. /\ n \in DOMAIN message /\ message[n] \in Row /\ n \in Of(i, key[i])
        /\ message[n].intent = i /\ message[n].key = key[i] /\ message[n].status # "failed"
        /\ got[w] \in {"sent", "failed"}
    BY <1>1, <1>2, <1>4, <1>5, Shapes DEF Staged, Of
  <1>7. \A v \in Worker : pc'[v] \notin {"post", "store"}
    BY <1>1, <1>3 DEF HandlerStores, Goto, TypeOK
  <1>8. \A j \in Intent : ~InCall(j)'
    BY <1>7 DEF InCall
  <1>9. \A m : Calling(m) => m = n
    BY <1>3, <1>5 DEF Calling
  <1>10. CASE message' = [message EXCEPT ![n].status = got[w]] /\ UNCHANGED faults
    <2>1. /\ DOMAIN message' = DOMAIN message /\ \A m \in DOMAIN message : m # n => message'[m] = message[m]
          /\ message'[n].status = got[w] /\ message'[n].intent = i /\ message'[n].key = key[i]
      <3>1. message'[n] = [message[n] EXCEPT !.status = got[w]] /\ DOMAIN message' = DOMAIN message
        BY <1>6, <1>10
      <3> QED
        BY <1>6, <1>10, <3>1 DEF Row
    <2>2. \A r \in Redriver : batch[r] \subseteq DOMAIN message
      BY <1>1 DEF Keyed
    <2>3. \A j \in Intent : InBatch(j)' => InBatch(j)
      BY <1>2, <1>6, <2>1, <2>2 DEF InBatch, At
    <2>4. Batched'
      BY <1>2, <1>6, <2>1, <2>2 DEF Batched
    <2>5. \A j \in Intent : Loose(j)' => Loose(j)
      <3> SUFFICES ASSUME NEW j \in Intent, NEW m \in DOMAIN message',
                          message'[m].intent = j, message'[m].status = "queued",
                          \A r \in Redriver : m \notin batch'[r]
            PROVE Loose(j)
        BY DEF Loose
      <3>1. m # n /\ m \in DOMAIN message /\ message[m].intent = j /\ message[m].status = "queued"
        BY <1>6, <2>1
      <3>2. ~Calling(m)
        BY <1>9, <3>1
      <3> QED
        BY <1>2, <3>1, <3>2 DEF Loose
    <2>6. ASSUME NEW j \in Intent, j # i PROVE Worth(j)' <= Worth(j)
      <3>1. ToSend(j)' => ToSend(j)
        BY <1>2, <1>6, <2>1, <2>6 DEF ToSend, Of
      <3> QED
        BY <1>1, <1>2, <1>8, <2>3, <2>5, <3>1, SameOrLess
    <2>7. Worth(i)' <= Worth(i)
      <3>1. ToSend(i)' => InCall(i)
        <4>1. ToSend(i)' => message'[n].status = "failed"
          BY <1>2, <1>6, <2>1 DEF ToSend, Of
        <4> QED
          BY <1>2, <1>4, <2>1, <4>1 DEF InCall
      <3>2. delivered[i] \in Nat
        BY <1>1 DEF TypeOK
      <3> QED
        BY <1>2, <1>8, <2>3, <2>5, <3>1, <3>2 DEF Worth, One
    <2> QED
      BY <1>1, <1>10, <2>4, <2>6, <2>7, SufferMore DEF Solvent, Cheap
  <1>11. CASE Suffer("mishap") /\ UNCHANGED message
    <2>1. \A j \in Intent : InBatch(j)' = InBatch(j) /\ ToSend(j)' = ToSend(j)
      BY <1>2, <1>11 DEF InBatch, At, ToSend, Of
    <2>2. \A j \in Intent : j # i => (Loose(j)' => Loose(j))
      <3> SUFFICES ASSUME NEW j \in Intent, j # i, NEW m \in DOMAIN message,
                          message[m].intent = j, message[m].status = "queued",
                          \A r \in Redriver : m \notin batch[r]
            PROVE Loose(j)
        BY <1>2, <1>11 DEF Loose
      <3>1. ~Calling(m)
        BY <1>6, <1>9
      <3> QED
        BY <3>1 DEF Loose
    <2>3. Batched'
      BY <1>2, <1>11 DEF Batched
    <2>4. \A j \in Intent : j # i => Worth(j)' <= Worth(j)
      BY <1>1, <1>2, <1>8, <2>1, <2>2, SameOrLess
    <2>5. Worth(i)' <= Worth(i) + 1
      BY <1>1, <1>2, <1>8, <2>1, OneMore
    <2>6. \A j \in Intent : Worth(j) \in Nat /\ Worth(j)' <= Worth(j) + One(j = i)
      BY <1>1, <2>4, <2>5, WorthNat DEF One
    <2> QED
      BY <1>1, <1>11, <2>3, <2>6, SufferMore DEF Solvent, PaidFor
  <1> QED
    BY <1>5, <1>10, <1>11 DEF HandlerStores

(* WorkerCrashes: the message of the call is left to the watchdog. *)
LEMMA CrashSolvent == ASSUME IInv, Batched, NEW w \in Worker, WorkerCrashes(w) PROVE Solvent
  <1> USE DEF ledgerVars, worldVars, attemptVars, tickVars
  <1>1. TypeOK /\ Staged
    BY DEF IInv
  <1>2. pc[w] # "idle" /\ Suffer("mishap") /\ UNCHANGED <<key, message, delivered, young, rpc, batch>>
    BY DEF WorkerCrashes
  <1>3. intent[w] \in Intent /\ \A v \in Worker : v # w => pc[v] = "idle"
    BY <1>1, <1>2, Shapes, OthersIdle
  <1>4. PICK i \in Intent : i = intent[w]
    BY <1>3
  <1>5. \A v \in Worker : pc'[v] = "idle"
    BY <1>2, Ended DEF WorkerCrashes
  <1>6. \A j \in Intent : ~InCall(j)'
    BY <1>5 DEF InCall
  <1>7. \A n : Calling(n) => n \in DOMAIN message /\ message[n].intent = i
    BY <1>1, <1>3, <1>4 DEF Calling, Staged, Of
  <1>8. \A j \in Intent : InBatch(j)' = InBatch(j) /\ ToSend(j)' = ToSend(j)
    BY <1>2 DEF InBatch, At, ToSend, Of
  <1>9. \A j \in Intent : j # i => (Loose(j)' => Loose(j))
    BY <1>2, <1>7 DEF Loose
  <1>10. \A j \in Intent : j # i => Worth(j)' <= Worth(j)
    BY <1>1, <1>2, <1>6, <1>8, <1>9, SameOrLess
  <1>11. Worth(i)' <= Worth(i) + 1
    BY <1>1, <1>2, <1>6, <1>8, OneMore
  <1>12. \A j \in Intent : Worth(j) \in Nat /\ Worth(j)' <= Worth(j) + One(j = i)
    BY <1>1, <1>10, <1>11, WorthNat DEF One
  <1>13. Batched'
    BY <1>2 DEF Batched
  <1> QED
    BY <1>1, <1>2, <1>12, <1>13, SufferMore DEF Solvent, PaidFor

(* Ages: a send that outlives the age limit is paid for. *)
LEMMA AgesSolvent == ASSUME IInv, Batched, NEW n \in young, Ages(n) PROVE Solvent
  <1> USE DEF ledgerVars, worldVars, attemptVars, tickVars
  <1>1. TypeOK /\ Staged
    BY DEF IInv
  <1>2. young' = young \ {n} /\ UNCHANGED <<key, message, delivered, rpc, batch, attemptVars>>
    BY DEF Ages
  <1>3. \A j \in Intent : InCall(j)' = InCall(j) /\ InBatch(j)' = InBatch(j) /\ ToSend(j)' = ToSend(j)
    BY <1>2 DEF InCall, InBatch, At, ToSend, Of
  <1>4. \A m : Calling(m)' = Calling(m)
    BY <1>2 DEF Calling
  <1>5. Batched'
    BY <1>2 DEF Batched
  <1>6. CASE ~Calling(n)
    <2>1. \A j \in Intent : Loose(j)' => Loose(j)
      BY <1>2, <1>4, <1>6 DEF Loose
    <2>2. \A j \in Intent : Worth(j)' <= Worth(j)
      BY <1>1, <1>2, <1>3, <2>1, SameOrLess
    <2> QED
      BY <1>1, <1>5, <2>2, <1>6, SufferMore DEF Ages, Calling, Solvent, Cheap
  <1>7. CASE Calling(n)
    <2>1. PICK w \in Worker : row[w] = n /\ pc[w] \in {"post", "store"}
      BY <1>7 DEF Calling
    <2>2. message[n].intent = intent[w] /\ intent[w] \in Intent
      BY <1>1, <2>1, Shapes DEF Staged, Of
    <2>3. PICK i \in Intent : i = message[n].intent
      BY <2>2
    <2>4. Suffer("mishap")
      BY <2>1 DEF Ages
    <2>5. \A j \in Intent : j # i => (Loose(j)' => Loose(j))
      BY <1>2, <1>4, <2>3 DEF Loose
    <2>6. \A j \in Intent : j # i => Worth(j)' <= Worth(j)
      BY <1>1, <1>2, <1>3, <2>5, SameOrLess
    <2>7. Worth(i)' <= Worth(i) + 1
      BY <1>1, <1>2, <1>3, OneMore
    <2>8. \A j \in Intent : Worth(j) \in Nat /\ Worth(j)' <= Worth(j) + One(j = i)
      BY <1>1, <2>6, <2>7, WorthNat DEF One
    <2> QED
      BY <1>1, <1>5, <2>4, <2>8, SufferMore DEF Solvent, PaidFor
  <1> QED
    BY <1>6, <1>7

-----------------------------------------------------------------------------
(* Select: what comes into a batch was loose, and it is all that was. *)
LEMMA SelectSolvent ==
  ASSUME IInv, Batched, \A q, r \in Redriver : q = r, NEW r \in Redriver, Select(r) PROVE Solvent
  <1> USE DEF ledgerVars, worldVars, attemptVars
  <1>1. TypeOK /\ Keyed
    BY DEF IInv
  <1>2. /\ rpc[r] = "idle" /\ batch[r] = {}
        /\ UNCHANGED <<key, message, young, delivered, pc, intent, row, got, faults>>
    BY DEF Select, Batched
  <1>3. /\ rpc' = [rpc EXCEPT ![r] = "post"]
        /\ batch'[r] \subseteq Redrivable
    BY <1>1 DEF Select, TypeOK
  <1>4. \A n \in batch'[r] : n \in DOMAIN message /\ n \notin young /\ message[n].status = "queued"
    BY <1>3 DEF Redrivable
  <1>5. \A q \in Redriver : q = r
    OBVIOUS
  <1>6. Batched'
    <2>1. \A m, n \in batch'[r] :
            message[n].intent \in Intent /\ message[m].intent = message[n].intent => m = n
      BY <1>1, <1>4, Living
    <2>2. rpc'[r] = "post"
      BY <1>1, <1>3 DEF TypeOK
    <2> QED
      BY <1>2, <1>4, <1>5, <2>1, <2>2 DEF Batched
  <1>7. \A i \in Intent : InCall(i)' = InCall(i) /\ ToSend(i)' = ToSend(i)
    BY <1>2 DEF InCall, ToSend, Of
  <1>8. \A n : Calling(n)' = Calling(n)
    BY <1>2 DEF Calling
  <1>9. \A i \in Intent : ~InBatch(i)
    BY <1>2, <1>5 DEF InBatch
  <1>10. \A i \in Intent : InBatch(i)' \/ Loose(i)' => Loose(i)
    BY <1>2, <1>4, <1>5, <1>8 DEF InBatch, Loose
  <1>11. ASSUME NEW i \in Intent PROVE ~(InBatch(i)' /\ Loose(i)')
    <2> SUFFICES ASSUME InBatch(i)', Loose(i)' PROVE FALSE
      OBVIOUS
    <2>1. PICK n \in batch'[r] : message[n].intent = i
      BY <1>2, <1>5 DEF InBatch
    <2>2. PICK m \in DOMAIN message : message[m].intent = i /\ message[m].status = "queued" /\ m \notin batch'[r]
      BY <1>2 DEF Loose
    <2>3. m = n
      BY <1>1, <1>4, <2>1, <2>2, Living
    <2> QED
      BY <2>1, <2>2, <2>3
  <1>12. ASSUME NEW i \in Intent PROVE Worth(i)' <= Worth(i)
    <2>1. delivered[i] \in Nat /\ delivered'[i] = delivered[i]
      BY <1>1, <1>2 DEF TypeOK
    <2>2. ~InBatch(i) /\ ~(InBatch(i)' /\ Loose(i)') /\ (InBatch(i)' \/ Loose(i)' => Loose(i))
      BY <1>9, <1>10, <1>11
    <2> QED
      BY <1>7, <2>1, <2>2 DEF Worth, One
  <1> QED
    BY <1>1, <1>2, <1>6, <1>12, SufferMore DEF Solvent, Cheap

(* The tick goes on from message n: the others stay in the batch. *)
LEMMA NextLocal ==
  ASSUME IInv, Batched, \A q, r \in Redriver : q = r, NEW r \in Redriver, NEW n \in batch[r],
         At(r, n), NextOfBatch(r, n), UNCHANGED <<key, young, pc, intent, row, got>>,
         DOMAIN message' = DOMAIN message, \A m \in DOMAIN message : m # n => message'[m] = message[m],
         message'[n].intent = message[n].intent, message'[n].key = message[n].key,
         message'[n].status = "failed" => message[n].status = "failed",
         \A x \in Media : delivered'[x] = delivered[x]
  PROVE /\ Batched'
        /\ n \in DOMAIN message /\ \A q \in Redriver : batch'[q] = batch[r] \ {n}
        /\ \A i \in Intent : /\ InCall(i)' = InCall(i) /\ (ToSend(i)' => ToSend(i))
                             /\ (InBatch(i)' => InBatch(i) /\ message[n].intent # i)
        /\ \A i \in Intent : i # message[n].intent => (Loose(i)' => Loose(i))
  <1>1. TypeOK /\ Keyed
    BY DEF IInv
  <1>2. batch'[r] = batch[r] \ {n} /\ rpc'[r] = IF batch[r] = {n} THEN "idle" ELSE "post"
    BY <1>1 DEF NextOfBatch, TypeOK
  <1>3. \A q \in Redriver : q = r /\ batch'[q] = batch[r] \ {n}
    BY <1>2
  <1>4. batch[r] \subseteq DOMAIN message /\ batch[r] \subseteq Nat
    BY <1>1 DEF Keyed, TypeOK
  <1>5. Batched'
    <2>1. rpc'[r] = "idle" => batch'[r] = {}
      BY <1>2
    <2>2. \A m \in batch'[r] : m \in batch[r] /\ m \notin young' /\ message'[m] = message[m]
      BY <1>2, <1>4 DEF Batched
    <2> QED
      BY <1>3, <2>1, <2>2 DEF Batched
  <1>6. \A i \in Intent : InCall(i)' = InCall(i)
    BY DEF InCall
  <1>7. \A i \in Intent : ToSend(i)' => ToSend(i)
    BY <1>4 DEF ToSend, Of
  <1>8. ASSUME NEW i \in Intent, InBatch(i)' PROVE InBatch(i) /\ message[n].intent # i
    <2>1. PICK m \in batch[r] \ {n} : message[m].intent = i
      BY <1>2, <1>3, <1>4, <1>8 DEF InBatch
    <2>2. ~At(r, m)
      <3>1. m \in Nat /\ n \in Nat /\ n <= m /\ m # n
        BY <1>4, <2>1 DEF At
      <3>2. ~(m <= n)
        BY <3>1
      <3> QED
        BY <3>2 DEF At
    <2> QED
      BY <2>1, <2>2 DEF InBatch, Batched
  <1>9. \A m : Calling(m)' = Calling(m)
    BY DEF Calling
  <1>10. \A i \in Intent : i # message[n].intent => (Loose(i)' => Loose(i))
    <2> SUFFICES ASSUME NEW i \in Intent, i # message[n].intent, NEW m \in DOMAIN message',
                        message'[m].intent = i, message'[m].status = "queued",
                        \A q \in Redriver : m \notin batch'[q],
                        ~(m \in young' /\ Calling(m)')
          PROVE Loose(i)
      BY DEF Loose
    <2>1. m \in DOMAIN message /\ m # n /\ message[m].intent = i /\ message[m].status = "queued"
      OBVIOUS
    <2>2. \A q \in Redriver : m \notin batch[q]
      BY <1>3, <2>1
    <2> QED
      BY <1>9, <2>1, <2>2 DEF Loose
  <1> QED
    BY <1>3, <1>4, <1>5, <1>6, <1>7, <1>8, <1>10

(* RedriverPosts: the call uses up the batch's claim on the intent; if it  *)
(* delivers and looks failed, that is paid for.                            *)
LEMMA RedrivePostSolvent ==
  ASSUME IInv, Batched, \A q, r \in Redriver : q = r,
         NEW r \in Redriver, NEW n \in batch[r], RedriverPosts(r, n)
  PROVE Solvent
  <1> USE DEF ledgerVars, worldVars, attemptVars
  <1>1. TypeOK /\ Keyed
    BY DEF IInv
  <1>2. /\ rpc[r] = "post" /\ At(r, n)
        /\ UNCHANGED <<key, message, young, pc, intent, row, got>>
    BY DEF RedriverPosts
  <1>3. n \in DOMAIN message /\ message[n].intent \in Intent \cup Media
    BY <1>1, Shapes DEF Keyed, Row
  <1>4. PICK i \in Intent \cup Media : i = message[n].intent
    BY <1>3
  <1>5. delivered \in [Intent \cup Media -> Nat] /\ \A j \in Intent : delivered[j] \in Nat
    BY <1>1 DEF TypeOK
  <1>6. i \in Intent => InBatch(i)
    BY <1>2, <1>4 DEF InBatch
  <1>7. CASE i \notin Media /\ delivered' = [delivered EXCEPT ![i] = @ + 1]
             /\ rpc' = [rpc EXCEPT ![r] = "store"] /\ UNCHANGED <<batch, faults>>
    <2>1. i \in Intent /\ delivered'[i] = delivered[i] + 1
          /\ \A j \in Intent \cup Media : j # i => delivered'[j] = delivered[j]
      BY <1>5, <1>7
    <2>2. rpc'[r] = "store" /\ \A q \in Redriver : q = r
      BY <1>1, <1>7 DEF TypeOK
    <2>3. Batched'
      BY <1>2, <1>7, <2>1, <2>2 DEF Batched
    <2>4. \A j \in Intent : InCall(j)' = InCall(j) /\ ToSend(j)' = ToSend(j)
      BY <1>2 DEF InCall, ToSend, Of
    <2>5. \A m : Calling(m)' = Calling(m)
      BY <1>2 DEF Calling
    <2>6. \A j \in Intent : Loose(j)' = Loose(j)
      BY <1>2, <1>7, <2>5 DEF Loose
    <2>7. \A j \in Intent : InBatch(j)' => InBatch(j)
      BY <1>2, <1>7, <2>2 DEF InBatch
    <2>8. ~InBatch(i)'
      <3> SUFFICES ASSUME NEW m \in batch[r], message[m].intent = i PROVE At(r, m)'
        BY <1>2, <1>7, <2>2 DEF InBatch
      <3>1. m = n
        BY <1>4, <2>1 DEF Batched
      <3> QED
        BY <1>2, <1>7, <3>1 DEF At
    <2>9. Worth(i)' <= Worth(i)
      BY <1>5, <1>6, <2>1, <2>4, <2>6, <2>8 DEF Worth, One
    <2>10. \A j \in Intent : j # i => Worth(j)' <= Worth(j)
      BY <1>1, <2>1, <2>4, <2>6, <2>7, SameOrLess
    <2> QED
      BY <1>1, <1>7, <2>3, <2>9, <2>10, SufferMore DEF Solvent, Cheap
  <1>8. CASE i \notin Media /\ delivered' = [delivered EXCEPT ![i] = @ + 1]
             /\ Suffer("mishap") /\ NextOfBatch(r, n)
    <2>1. i \in Intent /\ delivered'[i] = delivered[i] + 1
          /\ \A j \in Intent \cup Media : j # i => delivered'[j] = delivered[j]
      BY <1>5, <1>8
    <2>2. \A x \in Media : delivered'[x] = delivered[x]
      BY <1>8, <2>1
    <2>3. /\ Batched'
          /\ \A j \in Intent : /\ InCall(j)' = InCall(j) /\ (ToSend(j)' => ToSend(j))
                               /\ (InBatch(j)' => InBatch(j) /\ message[n].intent # j)
          /\ \A j \in Intent : j # message[n].intent => (Loose(j)' => Loose(j))
      BY <1>2, <1>8, <2>2, NextLocal
    <2>4. Worth(i)' <= Worth(i) + 1
      <3>1. ~InBatch(i)' /\ InBatch(i)
        BY <1>4, <1>6, <2>1, <2>3
      <3> QED
        BY <1>5, <2>1, <2>3, <3>1 DEF Worth, One
    <2>5. \A j \in Intent : j # i => Worth(j)' <= Worth(j)
      BY <1>1, <1>4, <2>1, <2>3, SameOrLess
    <2>6. \A j \in Intent : Worth(j) \in Nat /\ Worth(j)' <= Worth(j) + One(j = i)
      BY <1>1, <2>4, <2>5, WorthNat DEF One
    <2> QED
      BY <1>1, <1>8, <2>1, <2>3, <2>6, SufferMore DEF Solvent, PaidFor
  <1>9. CASE (UNCHANGED faults \/ Suffer("outage")) /\ NextOfBatch(r, n) /\ UNCHANGED delivered
    <2>1. /\ Batched'
          /\ \A j \in Intent : /\ InCall(j)' = InCall(j) /\ (ToSend(j)' => ToSend(j))
                               /\ (InBatch(j)' => InBatch(j) /\ message[n].intent # j)
          /\ \A j \in Intent : j # message[n].intent => (Loose(j)' => Loose(j))
      BY <1>2, <1>9, NextLocal
    <2>2. \A j \in Intent : j # i => Worth(j)' <= Worth(j)
      BY <1>1, <1>4, <1>9, <2>1, SameOrLess
    <2>3. i \in Intent => Worth(i)' <= Worth(i)
      <3>1. i \in Intent => ~InBatch(i)' /\ InBatch(i)
        BY <1>4, <1>6, <2>1
      <3> QED
        BY <1>5, <1>9, <2>1, <3>1 DEF Worth, One
    <2> QED
      BY <1>1, <1>9, <2>1, <2>2, <2>3, SufferMore DEF Solvent, Cheap
  <1> QED
    BY <1>4, <1>7, <1>8, <1>9 DEF RedriverPosts

(* RedriverStores: a message that is stored as sent is loose no more. *)
LEMMA RedriveStoreSolvent ==
  ASSUME IInv, Batched, \A q, r \in Redriver : q = r,
         NEW r \in Redriver, NEW n \in batch[r], RedriverStores(r, n)
  PROVE Solvent
  <1> USE DEF ledgerVars, worldVars, attemptVars
  <1>1. TypeOK /\ Keyed
    BY DEF IInv
  <1>2. /\ At(r, n) /\ NextOfBatch(r, n)
        /\ UNCHANGED <<key, young, delivered, pc, intent, row, got>>
    BY DEF RedriverStores
  <1>3. n \in DOMAIN message /\ message[n] \in Row
    BY <1>1, Shapes DEF Keyed
  <1>4. PICK i : i = message[n].intent
    OBVIOUS
  <1>5. CASE /\ message' = IF message[n].status = "queued" THEN [message EXCEPT ![n].status = "sent"] ELSE message
             /\ UNCHANGED faults
    <2>1. /\ DOMAIN message' = DOMAIN message /\ \A m \in DOMAIN message : m # n => message'[m] = message[m]
          /\ message'[n].intent = message[n].intent /\ message'[n].key = message[n].key
          /\ message'[n].status # "queued"
          /\ message'[n].status = "failed" => message[n].status = "failed"
      <3>1. CASE message[n].status = "queued"
        <4>1. message'[n] = [message[n] EXCEPT !.status = "sent"] /\ DOMAIN message' = DOMAIN message
          BY <1>3, <1>5, <3>1
        <4> QED
          BY <1>3, <1>5, <3>1, <4>1 DEF Row
      <3>2. CASE message[n].status # "queued"
        BY <1>5, <3>2
      <3> QED
        BY <3>1, <3>2
    <2>2. /\ Batched'
          /\ \A q \in Redriver : batch'[q] = batch[r] \ {n}
          /\ \A j \in Intent : /\ InCall(j)' = InCall(j) /\ (ToSend(j)' => ToSend(j))
                               /\ (InBatch(j)' => InBatch(j))
      BY <1>2, <2>1, NextLocal
    <2>3. \A m : Calling(m)' = Calling(m)
      BY <1>2 DEF Calling
    <2>4. \A j \in Intent : Loose(j)' => Loose(j)
      <3> SUFFICES ASSUME NEW j \in Intent, NEW m \in DOMAIN message',
                          message'[m].intent = j, message'[m].status = "queued",
                          \A q \in Redriver : m \notin batch'[q],
                          ~(m \in young' /\ Calling(m)')
            PROVE Loose(j)
        BY DEF Loose
      <3>1. m \in DOMAIN message /\ m # n /\ message[m].intent = j /\ message[m].status = "queued"
        BY <2>1
      <3>2. \A q \in Redriver : m \notin batch[q]
        BY <2>2, <3>1
      <3> QED
        BY <1>2, <2>3, <3>1, <3>2 DEF Loose
    <2>5. \A j \in Intent : Worth(j)' <= Worth(j)
      BY <1>1, <1>2, <2>2, <2>4, SameOrLess
    <2> QED
      BY <1>1, <1>5, <2>2, <2>5, SufferMore DEF Solvent, Cheap
  <1>6. CASE Suffer("mishap") /\ UNCHANGED message
    <2>1. /\ Batched'
          /\ \A j \in Intent : /\ InCall(j)' = InCall(j) /\ (ToSend(j)' => ToSend(j))
                               /\ (InBatch(j)' => InBatch(j))
          /\ \A j \in Intent : j # message[n].intent => (Loose(j)' => Loose(j))
      BY <1>2, <1>6, NextLocal
    <2>2. \A j \in Intent : j # i => Worth(j)' <= Worth(j)
      BY <1>1, <1>2, <1>4, <2>1, SameOrLess
    <2>3. CASE i \in Intent
      <3>1. Worth(i)' <= Worth(i) + 1
        BY <1>1, <1>2, <2>1, <2>3, OneMore
      <3>2. \A j \in Intent : Worth(j) \in Nat /\ Worth(j)' <= Worth(j) + One(j = i)
        BY <1>1, <2>2, <3>1, WorthNat DEF One
      <3> QED
        BY <1>1, <1>6, <2>1, <2>3, <3>2, SufferMore DEF Solvent, PaidFor
    <2>4. CASE i \notin Intent
      BY <1>1, <1>6, <2>1, <2>2, <2>4, SufferMore DEF Solvent, Cheap
    <2> QED
      BY <2>3, <2>4
  <1> QED
    BY <1>5, <1>6 DEF RedriverStores

(* RedriverCrashes: the rest of the batch is loose again, and so is the    *)
(* message that was delivered and not stored.                              *)
LEMMA RedriveCrashSolvent ==
  ASSUME IInv, Batched, \A q, r \in Redriver : q = r, NEW r \in Redriver, RedriverCrashes(r)
  PROVE Solvent
  <1> USE DEF ledgerVars, worldVars, attemptVars
  <1>1. TypeOK /\ Keyed
    BY DEF IInv
  <1>2. Suffer("mishap") /\ UNCHANGED <<key, message, young, delivered, pc, intent, row, got>>
    BY DEF RedriverCrashes
  <1>3. \A q \in Redriver : q = r /\ batch'[q] = {}
    BY <1>1 DEF RedriverCrashes, TypeOK
  <1>4. Batched'
    BY <1>2, <1>3 DEF Batched
  <1>5. \A j \in Intent : ~InBatch(j)' /\ InCall(j)' = InCall(j) /\ ToSend(j)' = ToSend(j)
    BY <1>2, <1>3 DEF InBatch, InCall, ToSend, Of
  <1>6. \A m : Calling(m)' = Calling(m)
    BY <1>2 DEF Calling
  <1>7. ASSUME NEW j \in Intent, Loose(j)', ~Loose(j) PROVE \E n \in batch[r] : message[n].intent = j
    BY <1>2, <1>3, <1>6, <1>7 DEF Loose
  <1>8. ASSUME NEW j \in Intent, InBatch(j) \/ ~Loose(j)' \/ Loose(j) PROVE Worth(j)' <= Worth(j)
    <2>1. delivered[j] \in Nat /\ delivered'[j] = delivered[j]
      BY <1>1, <1>2 DEF TypeOK
    <2> QED
      BY <1>5, <1>8, <2>1 DEF Worth, One
  <1>9. CASE \E i \in Intent : ~InBatch(i) /\ Loose(i)' /\ ~Loose(i)
    <2>1. PICK i \in Intent : ~InBatch(i) /\ Loose(i)' /\ ~Loose(i)
      BY <1>9
    <2>2. PICK n \in batch[r] : message[n].intent = i
      BY <1>7, <2>1
    <2>3. At(r, n)
      BY <2>1, <2>2 DEF InBatch
    <2>4. ASSUME NEW j \in Intent, j # i PROVE InBatch(j) \/ ~Loose(j)' \/ Loose(j)
      <3> SUFFICES ASSUME ~InBatch(j), Loose(j)', ~Loose(j) PROVE FALSE
        OBVIOUS
      <3>1. PICK m \in batch[r] : message[m].intent = j
        BY <1>7
      <3>2. At(r, m) /\ m \in Nat /\ n \in Nat
        BY <1>1, <3>1 DEF InBatch, TypeOK
      <3>3. m = n
        BY <2>3, <3>2 DEF At
      <3> QED
        BY <2>2, <2>4, <3>1, <3>3
    <2>5. Worth(i)' <= Worth(i) + 1
      BY <1>1, <1>2, <1>5, OneMore
    <2>6. \A j \in Intent : Worth(j) \in Nat /\ Worth(j)' <= Worth(j) + One(j = i)
      BY <1>1, <1>8, <2>4, <2>5, WorthNat DEF One
    <2> QED
      BY <1>1, <1>2, <1>4, <2>6, SufferMore DEF Solvent, PaidFor
  <1>10. CASE \A i \in Intent : InBatch(i) \/ ~Loose(i)' \/ Loose(i)
    BY <1>1, <1>2, <1>4, <1>8, <1>10, SufferMore DEF Solvent, Cheap
  <1> QED
    BY <1>9, <1>10

-----------------------------------------------------------------------------
LEMMA DebtInit == Init => Batched /\ Afforded
  <1> SUFFICES ASSUME Init PROVE Batched /\ Afforded
    OBVIOUS
  <1>1. Batched
    BY DEF Init, Batched
  <1>2. ASSUME NEW i \in Intent PROVE Worth(i) <= 1 /\ Worth(i) \in Nat
    <2>1. delivered[i] = 0 /\ ~InBatch(i) /\ ~InCall(i) /\ ~Loose(i)
      BY DEF Init, InBatch, InCall, Loose
    <2> QED
      BY <2>1 DEF Worth, One
  <1>3. Owed = {}
    <2>1. \A i \in Intent : 2..Worth(i) = {}
      BY <1>2
    <2> QED
      BY <2>1 DEF Owed, Extra
  <1>4. faults["mishap"] = 0
    BY DEF Init, Fault
  <1> QED
    BY <1>1, <1>3, <1>4, FS_EmptySet DEF Afforded

LEMMA DebtNext ==
  ASSUME \A q, r \in Redriver : q = r, IInv, IInv', Batched, Afforded, [Next]_vars
  PROVE Batched' /\ Afforded'
  <1>1. Solvent
    <2>1. CASE \/ \E w \in Worker, i \in Intent : Begin(w, i)
               \/ \E w \in Worker : Claim(w) \/ Lookup(w) \/ HandlerReads(w) \/ Settle(w) \/ Commit(w)
               \/ Reconcile \/ SessionChanges \/ \E i \in Intent \cup Media : OptOut(i)
               \/ UNCHANGED vars
      BY <2>1, QuietSolvent
    <2>2. CASE \E w \in Worker : HandlerInserts(w) \/ HandlerPosts(w) \/ HandlerStores(w) \/ WorkerCrashes(w)
      BY <2>2, InsertSolvent, PostSolvent, StoreSolvent, CrashSolvent DEF HandlerInserts
    <2>3. CASE \E w \in Worker : AttemptFails(w)
      BY <2>3, QuietSolvent, InsertSolvent DEF AttemptFails
    <2>4. CASE \E r \in Redriver : RedriveStep(r) \/ RedriverCrashes(r)
      BY <2>4, SelectSolvent, RedrivePostSolvent, RedriveStoreSolvent, RedriveCrashSolvent DEF RedriveStep
    <2>5. CASE (\E n \in young : Ages(n)) \/ (\E x \in Media : QueueMedia(x))
      BY <2>5, AgesSolvent, QueueMediaSolvent
    <2> QED
      BY <2>1, <2>2, <2>3, <2>4, <2>5 DEF Next, AttemptStep
  <1> QED
    BY <1>1, SolventSteps DEF IInv, Solvent

(* What was delivered is part of what an intent is worth. *)
LEMMA DebtCovers == TypeOK /\ Batched /\ Afforded => DuplicatesHaveACause
  <1> SUFFICES ASSUME TypeOK, Batched, Afforded PROVE DuplicatesHaveACause
    OBVIOUS
  <1>1. Duplicates \subseteq Owed
    <2> SUFFICES ASSUME NEW i \in Intent \cup Media, NEW k \in 2..delivered[i] PROVE <<i, k>> \in Owed
      BY DEF Duplicates
    <2>1. i \in Intent
      BY DEF Batched
    <2>2. k \in 2..Worth(i)
      BY <2>1, WorthNat
    <2> QED
      BY <2>1, <2>2 DEF Owed, Extra
  <1>2. IsFiniteSet(Duplicates) /\ Cardinality(Duplicates) <= Cardinality(Owed)
    BY <1>1, FS_Subset DEF Afforded
  <1>3. Cardinality(Duplicates) \in Nat /\ Cardinality(Owed) \in Nat /\ faults["mishap"] \in Nat
    BY <1>2, FS_CardinalityType DEF Afforded, TypeOK, Fault
  <1> QED
    BY <1>2, <1>3 DEF DuplicatesHaveACause, Afforded

(* "nunca duplicadas" (session-reconciler.ts), for any number of intents,  *)
(* turns, keys, faults and outages: while one process runs the watchdog,   *)
(* every delivery of a message after its first one is paid for by a crash, *)
(* a failed update, a timed out call or a slow send of its own.            *)
THEOREM DuplicatesArePaidFor ==
  ASSUME \A q, r \in Redriver : q = r PROVE Spec => []DuplicatesHaveACause
  <1>1. IInv /\ IInv' /\ Batched /\ Afforded /\ [Next]_vars => Batched' /\ Afforded'
    BY DebtNext
  <1>2. IInv /\ Batched /\ Afforded => DuplicatesHaveACause
    BY DebtCovers DEF IInv
  <1> QED
    BY <1>1, <1>2, DebtInit, Invariance, PTL DEF Spec

(* Until a mishap happens no contact gets a message twice. *)
Once == faults["mishap"] = 0 => \A i \in Intent \cup Media : delivered[i] <= 1

(* The case without a mishap: while one process runs the watchdog and no   *)
(* crash, failed update, timed out call or slow send has happened, no      *)
(* contact got a message twice (session-reconciler.ts).                    *)
COROLLARY OnceSafety == ASSUME \A q, r \in Redriver : q = r PROVE Spec => []Once
  <1>1. IInv /\ IInv' /\ Batched /\ Afforded /\ [Next]_vars => Batched' /\ Afforded'
    BY DebtNext
  <1>2. IInv /\ Batched /\ Afforded => Once
    <2> SUFFICES ASSUME TypeOK, Batched, Afforded, faults["mishap"] = 0, NEW i \in Intent \cup Media
          PROVE delivered[i] <= 1
      BY DEF IInv, Once
    <2>1. Owed = {}
      BY FS_CardinalityType, FS_EmptySet DEF Afforded
    <2>2. CASE i \in Intent
      <3>1. delivered[i] \in Nat /\ Worth(i) \in Nat /\ delivered[i] <= Worth(i) /\ <<i, 2>> \notin Owed
        BY <2>1, <2>2, WorthNat
      <3>2. 2 \notin 2..Worth(i)
        BY <2>2, <3>1 DEF Owed, Extra
      <3> QED
        BY <3>1, <3>2
    <2>3. CASE i \in Media
      BY <2>3 DEF Batched
    <2> QED
      BY <2>2, <2>3
  <1> QED
    BY <1>1, <1>2, DebtInit, Invariance, PTL DEF Spec
=============================================================================
