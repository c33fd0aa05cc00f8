------------------------------ MODULE FlowGraph ------------------------------
(***************************************************************************)
(* The validator of follow-up flows (lib/followup/validate-publish.ts): a  *)
(* draft becomes the graph that Followup walks only if it finds nothing.   *)
(*                                                                         *)
(* A flow is a record: node is the sequence of its nodes, with an id that  *)
(* is their place in the array; out the edges of each, in the order of     *)
(* theirs.  A wait has what isSufficientWaitNode and waitMs compare, the   *)
(* least and the most it lasts; template says that an action does not need *)
(* one more.  Edges join nodes of the flow: see the README.                *)
(***************************************************************************)
EXTENDS Naturals, Sequences, FiniteSets, SequencesExt

CONSTANTS
  MinCycleWait,   \* MIN_CYCLE_WAIT_MS
  LongWait,       \* LONG_WAIT_THRESHOLD_MS
  MaxPathSteps,   \* MAX_PATH_STEPS
  MinGrace        \* the least grace_timeout_ms

(* buildOutEdges: the targets of each node, in order, and the reverse. *)
OutEdges(G) == [n \in DOMAIN G.node |-> [i \in DOMAIN G.out[n] |-> G.out[n][i].to]]
InEdges(succ) == [n \in DOMAIN succ |-> SetToSeq({m \in DOMAIN succ : n \in Range(succ[m])})]

OfType(G, t) == {n \in DOMAIN G.node : G.node[n].type = t}

RECURSIVE BfsReachable(_, _, _)
BfsReachable(visited, queue, succ) ==
  IF queue = <<>> THEN visited
  ELSE LET new == Range(succ[Head(queue)]) \ visited
       IN BfsReachable(visited \cup new, Tail(queue) \o SetToSeq(new), succ)

(* Tarjan's algorithm: strongconnect(v) of the walk w. *)
RECURSIVE StrongConnect(_, _, _)
StrongConnect(v, succ, w) ==
  LET opened == [w EXCEPT !.index = (v :> w.next) @@ @, !.lowlink = (v :> w.next) @@ @,
                          !.next = @ + 1, !.stack = Append(@, v)]
      Visit(x, t) ==
        IF t \notin DOMAIN x.index
          THEN LET y == StrongConnect(t, succ, x)
               IN [y EXCEPT !.lowlink[v] = Min({@, y.lowlink[t]})]
        ELSE IF t \in Range(x.stack) THEN [x EXCEPT !.lowlink[v] = Min({@, x.index[t]})]
        ELSE x
      closed == FoldLeft(Visit, opened, succ[v])
      from == CHOOSE i \in DOMAIN closed.stack : closed.stack[i] = v
  IN IF closed.lowlink[v] # closed.index[v] THEN closed
     ELSE [closed EXCEPT !.stack = SubSeq(@, 1, from - 1),
             !.components = Append(@, Range(SubSeq(closed.stack, from, Len(closed.stack))))]

StronglyConnectedComponents(ids, succ) ==
  LET Start(w, v) == IF v \in DOMAIN w.index THEN w ELSE StrongConnect(v, succ, w)
      nothing == [next |-> 0, index |-> <<>>, lowlink |-> <<>>, stack |-> <<>>, components |-> <<>>]
  IN FoldLeft(Start, nothing, ids).components

IsCycleComponent(component, succ) ==
  \/ Cardinality(component) > 1
  \/ \E n \in component : n \in Range(succ[n])

(* analyzeCondensedPaths: what has been waited, and how many nodes passed, *)
(* at most on the way to each component; the last of components first.     *)
AnalyzeCondensedPaths(G, start) ==
  LET succ == OutEdges(G)
      comps == StronglyConnectedComponents([n \in DOMAIN G.node |-> n], succ)
      compOf == [n \in DOMAIN G.node |-> CHOOSE i \in DOMAIN comps : n \in comps[i]]
      Waits(i) == FoldLeft(LAMBDA sum, n : IF n \in comps[i] /\ G.node[n].type = "wait"
                                             THEN sum + G.node[n].longest ELSE sum,
                           0, [n \in DOMAIN G.node |-> n])
      Later(i) == {compOf[t] : t \in UNION {Range(succ[n]) : n \in comps[i]}} \ {i}
      Raise(arrived, i, total) ==
        [j \in DOMAIN arrived \cup Later(i) |->
           IF j \in Later(i) /\ (j \in DOMAIN arrived => arrived[j] < total) THEN total ELSE arrived[j]]
      Sweep(r, i) ==
        IF i \notin DOMAIN r.wait THEN r
        ELSE LET wait == r.wait[i] + Waits(i)
                 steps == r.steps[i] + Cardinality(comps[i])
             IN [wait |-> Raise(r.wait, i, wait), steps |-> Raise(r.steps, i, steps),
                 exceeded |-> r.exceeded \/ steps > MaxPathSteps,
                 long |-> r.long \cup IF wait < LongWait THEN {}
                                      ELSE {n \in comps[i] : G.node[n].type = "action"
                                                               /\ ~G.node[n].template}]
      begun == compOf[start]
  IN FoldLeft(Sweep,
              [wait |-> begun :> 0, steps |-> begun :> 0, exceeded |-> FALSE, long |-> {}],
              Reverse([i \in DOMAIN comps |-> i]))

(* A cycle is left when every wait that is long enough is taken away. *)
CyclesWithoutWait(G) ==
  LET Enough(n) == G.node[n].type = "wait" /\ G.node[n].shortest >= MinCycleWait
      left == SelectSeq([n \in DOMAIN G.node |-> n], LAMBDA n : ~Enough(n))
      succ == [n \in Range(left) |-> SelectSeq(OutEdges(G)[n], LAMBDA t : ~Enough(t))]
  IN {c \in Range(StronglyConnectedComponents(left, succ)) : IsCycleComponent(c, succ)}

When(wrong, error) == IF wrong THEN {error} ELSE {}

(* What is wrong with node n of type ai_classify. *)
ClassifyErrors(G, n) ==
  LET on == {edge.on : edge \in Range(G.out[n])}
  IN {<<n, "missing_class_edge">> : k \in G.node[n].classes \ on}
     \cup When("no_reply" \notin on, <<n, "missing_no_reply_edge">>)
     \cup When("always" \notin on, <<n, "missing_always_fallback">>)
     \cup When(G.node[n].grace < MinGrace, <<n, "grace_too_short">>)

(* What needs a trigger to start from, the first one. *)
PathErrors(G) ==
  LET start == Min(OfType(G, "trigger"))
      succ == OutEdges(G)
      reachable == BfsReachable({start}, <<start>>, succ)
      ends == OfType(G, "end")
      finite == BfsReachable(ends, SetToSeq(ends), InEdges(succ))
      paths == AnalyzeCondensedPaths(G, start)
  IN {<<n, "unreachable_node">> : n \in DOMAIN G.node \ reachable}
     \cup {<<n, "no_end_path">> : n \in reachable \ finite}
     \cup {<<n, "long_wait_needs_template">> : n \in paths.long}
     \cup When(paths.exceeded, <<0, "max_steps_exceeded">>)

(* validateFlowForPublish; 0 stands for no node. *)
Errors(G) ==
  LET triggers == OfType(G, "trigger")
  IN When(triggers = {}, <<0, "no_trigger">>)
     \cup (IF triggers = {} THEN {}
            ELSE {<<n, "multiple_triggers">> : n \in triggers \ {Min(triggers)}} \cup PathErrors(G))
     \cup UNION {ClassifyErrors(G, n) : n \in OfType(G, "ai_classify")}
     \cup {<<Min(c), "cycle_without_wait">> : c \in CyclesWithoutWait(G)}

Publishable(G) == Errors(G) = {}
=============================================================================
