----------------------------- MODULE MCFollowup -----------------------------
(* Bounded instances of Followup for TLC: flows that the validator accepts. *)
EXTENDS Followup, MCFlowGraph, TLC

CONSTANTS tr, a, c, w, e

(* A message, the reply's class, and a wait before the end if there was a reply. *)
Flow == {tr, a, c, w, e}
FlowType == (tr :> "trigger") @@ (a :> "action") @@ (c :> "classify")
              @@ (w :> "wait") @@ (e :> "end")
FlowOut == (tr :> {a}) @@ (a :> {c}) @@ (c :> {w, e}) @@ (w :> {e}) @@ (e :> {})
FlowNoReply == [n \in Flow |-> e]

(* The same without the wait. *)
ShortFlow == Flow \ {w}
ShortType == [n \in ShortFlow |-> FlowType[n]]
ShortOut == [n \in ShortFlow |-> FlowOut[n] \ {w}]
ShortNoReply == [n \in ShortFlow |-> e]

(* A flow with a cycle: it waits and, on a condition, sends again. *)
LoopType == [FlowType EXCEPT ![c] = "condition"]
LoopOut == [FlowOut EXCEPT ![a] = {w}, ![w] = {c}, ![c] = {a, e}]

(* When the classifying flows come to their action, see Timetable. *)
ASSUME TimetableAssumption ==
  Type[c] = "classify" =>
    Timetable({tr, a, c}, (tr :> tr) @@ (a :> tr) @@ (c :> a), (tr :> 0) @@ (a :> 1) @@ (c :> 0))

(* The validator, with the step limit of the code. *)
Publish == INSTANCE FlowGraph WITH MinCycleWait <- 1, LongWait <- 2, MaxPathSteps <- 30, MinGrace <- 1

(* The flow as the validator sees it, with nodes in the order of ids. *)
Drawn(ids, type, out) ==
  LET place(n) == CHOOSE i \in DOMAIN ids : ids[i] = n
      edges(n, on) == [i \in 1..Cardinality(out[n]) |-> [to |-> place(Publish!SetToSeq(out[n])[i]), on |-> on]]
      otherwise == <<[to |-> place(e), on |-> "no_reply"], [to |-> place(e), on |-> "always"]>>
  IN [node |-> [i \in DOMAIN ids |->
                  Draft(IF type[ids[i]] = "classify" THEN "ai_classify" ELSE type[ids[i]], 1)],
      out |-> [i \in DOMAIN ids |-> IF type[ids[i]] = "classify" THEN edges(ids[i], "k") \o otherwise
                                    ELSE edges(ids[i], "always")]]
ASSUME FlowAssumption ==
  /\ Publish!Publishable(Drawn(<<tr, a, c, w, e>>, FlowType, FlowOut))
  /\ Publish!Publishable(Drawn(<<tr, a, c, e>>, ShortType, ShortOut))
  /\ Publish!Publishable(Drawn(<<tr, a, c, w, e>>, LoopType, LoopOut))

Symmetric == Permutations(Tick) \cup Permutations(Drain)
=============================================================================
