---------------------------- MODULE MCFlowGraph ----------------------------
(***************************************************************************)
(* FlowGraph against the definitions it is meant to compute, for every     *)
(* graph of a small size.  TLC evaluates the assumptions in every run of   *)
(* MCFollowup.                                                             *)
(***************************************************************************)
EXTENDS Naturals, Sequences, FiniteSets

Validator ==
  INSTANCE FlowGraph WITH MinCycleWait <- 1, LongWait <- 2, MaxPathSteps <- 3, MinGrace <- 1
LOCAL G == INSTANCE Graphs

LOCAL Lists(S, k) ==
  {s \in UNION {[1..j -> S] : j \in 0..k} : \A i, j \in DOMAIN s : s[i] = s[j] => i = j}
LOCAL Digraph(succ) ==
  [node |-> DOMAIN succ,
   edge |-> {e \in (DOMAIN succ) \X (DOMAIN succ) : \E i \in DOMAIN succ[e[1]] : succ[e[1]][i] = e[2]}]

(* Tarjan's algorithm finds the classes of mutually reachable nodes, each  *)
(* once and after every class it leads to, whatever the order of nodes and *)
(* edges: analyzeCondensedPaths relies on that order.                      *)
ComponentsAreRight(succ) ==
  LET comps == Validator!StronglyConnectedComponents([n \in DOMAIN succ |-> n], succ)
      leads == G!ConnectionsIn(Digraph(succ))
  IN /\ {comps[i] : i \in DOMAIN comps}
          = {{m \in DOMAIN succ : leads[m, n] /\ leads[n, m]} : n \in DOMAIN succ}
     /\ \A i, j \in DOMAIN comps :
          /\ comps[i] = comps[j] => i = j
          /\ \E m \in comps[i], n \in comps[j] : leads[m, n] => j <= i
ASSUME TarjanAssumption == \A succ \in [1..3 -> Lists(1..3, 3)] : ComponentsAreRight(succ)

Draft(type, longest) ==
  [type |-> type, shortest |-> 1, longest |-> longest, template |-> FALSE, classes |-> {"k"}, grace |-> 1]
LOCAL Flowing(types, longest, succ) ==
  [node |-> [n \in DOMAIN types |-> Draft(types[n], longest[n])],
   out |-> [n \in DOMAIN types |-> [i \in DOMAIN succ[n] |-> [to |-> succ[n][i], on |-> "always"]]]]

LOCAL Walks == {p \in Lists(1..4, 4) : p # <<>> /\ p[1] = 1}

(* "nunca aceita grafo ruim": no path without a repetition is longer, or   *)
(* waits longer before an action, than analyzeCondensedPaths admits; it    *)
(* rejects no graph without cycles that has none.                          *)
PathsAreBounded(longest, succ) ==
  LET types == <<"trigger", "wait", "wait", "action">>
      found == Validator!AnalyzeCondensedPaths(Flowing(types, longest, succ), 1)
      paths == {p \in Walks :
                  \A i \in 1..(Len(p) - 1) : \E j \in DOMAIN succ[p[i]] : succ[p[i]][j] = p[i + 1]}
      passed(p) == {p[i] : i \in DOMAIN p}
      Waits(p) == (IF 2 \in passed(p) THEN longest[2] ELSE 0) + (IF 3 \in passed(p) THEN longest[3] ELSE 0)
      long == {p[Len(p)] : p \in {q \in paths : types[q[Len(q)]] = "action" /\ Waits(q) >= 2}}
      steps == \E p \in paths : Len(p) > 3
      leads == G!ConnectionsIn(Digraph(succ))
      acyclic == \A m, n \in DOMAIN succ : m # n => ~(leads[m, n] /\ leads[n, m])
  IN /\ long \subseteq found.long /\ (steps => found.exceeded)
     /\ acyclic => found.long = long /\ found.exceeded = steps
LOCAL Others(n) == {s \in Lists((1..4) \ {n}, 2) : Len(s) = 2 => s[1] < s[2]}
ASSUME PathAssumption ==
  \A s1 \in Others(1), s2 \in Others(2), s3 \in Others(3), s4 \in Others(4) :
    \A longest \in {<<0, 1, 1, 0>>, <<0, 1, 2, 0>>} : PathsAreBounded(longest, <<s1, s2, s3, s4>>)

(* cycle_without_wait is exact: there is an error exactly when some nodes  *)
(* that are no wait, or too short a one, form a cycle.                     *)
CyclesAreFound(types, shortest, succ) ==
  LET flow == Flowing(types, <<1, 1, 1>>, succ)
      short == [flow EXCEPT !.node = [n \in DOMAIN types |-> [@[n] EXCEPT !.shortest = shortest[n]]]]
      free == {n \in DOMAIN types : types[n] # "wait" \/ shortest[n] = 0}
      edges == {<<m, n>> \in free \X free : \E i \in DOMAIN succ[m] : succ[m][i] = n}
      leads == G!ConnectionsIn([node |-> free, edge |-> edges])
  IN (Validator!CyclesWithoutWait(short) # {}) <=> \E e \in edges : leads[e[2], e[1]]
ASSUME CycleAssumption ==
  \A succ \in [1..3 -> {s \in Lists(1..3, 3) : \A i \in 2..Len(s) : s[i - 1] < s[i]}] :
    \A shortest \in [1..3 -> 0..1] :
      CyclesAreFound(<<"action", "wait", "wait">>, shortest, succ)

(* A published flow is one that Followup can walk, see its                 *)
(* GraphAssumption: it has a trigger, every node but an end has an edge    *)
(* and a classification one for no reply.                                  *)
Walkable(flow) ==
  LET typeOf(n) == flow.node[n].type
  IN /\ \E n \in DOMAIN flow.node : typeOf(n) = "trigger"
     /\ \A n \in DOMAIN flow.node : typeOf(n) # "end" => flow.out[n] # <<>>
     /\ \A n \in DOMAIN flow.node : typeOf(n) = "ai_classify" =>
          \E i \in DOMAIN flow.out[n] : flow.out[n][i].on = "no_reply"
LOCAL Labels == <<"k", "no_reply", "always">>
LOCAL Branches(to) ==
  LET used == {i \in 1..3 : to[i] # 0}
      nth(k) == CHOOSE i \in used : Cardinality({j \in used : j <= i}) = k
  IN [k \in 1..Cardinality(used) |-> [to |-> to[nth(k)], on |-> Labels[nth(k)]]]
LOCAL Flows ==
  {[node |-> <<Draft("trigger", 0), Draft(t2, 0), Draft(t3, 0)>>,
    out |-> <<Branches(<<0, 0, a1>>), Branches(a2), Branches(<<0, 0, a3>>)>>] :
   t2 \in {"ai_classify", "action"}, t3 \in {"end", "action"},
   a1 \in 0..3, a2 \in (0..3) \X (0..3) \X (0..3), a3 \in 0..3}
ASSUME WalkAssumption ==
  /\ \A flow \in Flows : Validator!Publishable(flow) => Walkable(flow)
  /\ \E flow \in Flows : flow.node[2].type = "ai_classify" /\ Validator!Publishable(flow)
=============================================================================
