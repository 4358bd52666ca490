--------------------------- MODULE RunGraphProofs ---------------------------
(***************************************************************************)
(* What the proofs about RunEngine and Orchestrator need to know of the    *)
(* graph: the types its nodes and edges keep, what a node writes, and      *)
(* which outputs exist at which node, for every set of ideas, every retry  *)
(* limit and every kind of output of pillars 3 and 4.                      *)
(***************************************************************************)
EXTENDS RunGraph, TLAPS

After2 == {"run_pillar_2", "architecture_gate", "run_pillar_3", "run_pillar_4", "run_pillar_5",
           "infra_spend_gate", "run_pillar_6", "launch_gate", "run_pillar_7"}
After3 == After2 \ {"run_pillar_2", "architecture_gate"}
After4 == After3 \ {"run_pillar_3"}
After5 == After4 \ {"run_pillar_4"}
After6 == {"run_pillar_6", "launch_gate", "run_pillar_7"}
After7 == {"run_pillar_7"}

\* Where a checkpoint stands tells which outputs exist: a node behind a pillar has that
\* pillar's output, but for pillars 1 and 5, which may fail, and one before it has not.
Positioned(cp) ==
    LET out == cp.values.output
    IN  /\ out[2] # "none" <=> cp.last \in After2
        /\ out[3] # "none" <=> cp.last \in After3
        /\ out[4] # "none" <=> cp.last \in After4
        /\ out[5] # "none" => cp.last \in After5
        /\ out[6] # "none" <=> cp.last \in After6
        /\ out[7] # "none" <=> cp.last \in After7
        /\ cp.last = "infra_spend_gate" => out[5] = "costly"

-----------------------------------------------------------------------------

\* The edges lead to nodes of the graph, or out of it.
LEMMA NextNodeType ==
    ASSUME NEW cp \in Checkpoint
    PROVE  next_of(cp) \in Nodes \cup {"END"}
  BY DEF Checkpoint, next_of, NextNode, Nodes, GateNodes, route_after_validate_input,
         route_after_validation_gate, route_after_pillar_5, route_on_approval

\* The two nodes that write several fields, with the pillar outputs as one field.
LEMMA PivotResult ==
    ASSUME NEW s \in RunState
    PROVE  NodeResults("pivot_rerun", s) =
             {[s EXCEPT !.retry_count = s.retry_count + 1, !.gate_decision = "none",
                        !.output = [s.output EXCEPT ![1] = "none"]]}
  BY DEF NodeResults, pivot_rerun, RunState

LEMMA Pillar7Result ==
    ASSUME NEW s \in RunState
    PROVE  NodeResults("run_pillar_7", s) =
             {[s EXCEPT !.output = [s.output EXCEPT ![7] = "stub"], !.status = "completed"]}
  BY DEF NodeResults, run_pillar_7, RunState

\* A node returns run states.
LEMMA NodeResultsType ==
    ASSUME NEW s \in RunState, NEW n \in Nodes
    PROVE  NodeResults(n, s) \subseteq RunState
  <1> USE RunGraphAssumption DEF RunState, Outputs, Pillars
  <1>1. CASE n = "validate_input" BY <1>1 DEF NodeResults, validate_input
  <1>2. CASE n = "run_pillar_1" BY <1>2 DEF NodeResults, run_pillar_1
  <1>3. CASE n = "pivot_rerun"
    <2>1. s.retry_count + 1 \in Nat OBVIOUS
    <2>2. [s.output EXCEPT ![1] = "none"] \in [Pillars -> Outputs] OBVIOUS
    <2> DEFINE r == [s EXCEPT !.retry_count = s.retry_count + 1, !.gate_decision = "none",
                              !.output = [s.output EXCEPT ![1] = "none"]]
    <2>3. r \in RunState BY <2>1, <2>2
    <2>4. NodeResults(n, s) = {r} BY <1>3, PivotResult
    <2> HIDE DEF r
    <2> QED BY <2>3, <2>4
  <1>4. CASE n = "run_pillar_2" BY <1>4 DEF NodeResults, run_pillar_2
  <1>5. CASE n = "run_pillar_3" BY <1>5 DEF NodeResults, run_pillar_3
  <1>6. CASE n = "run_pillar_4" BY <1>6 DEF NodeResults, run_pillar_4
  <1>7. CASE n = "run_pillar_5" BY <1>7 DEF NodeResults, run_pillar_5
  <1>8. CASE n = "run_pillar_6" BY <1>8 DEF NodeResults, run_pillar_6
  <1>9. CASE n = "run_pillar_7"
    <2>1. [s.output EXCEPT ![7] = "stub"] \in [Pillars -> Outputs] OBVIOUS
    <2> DEFINE r == [s EXCEPT !.output = [s.output EXCEPT ![7] = "stub"],
                              !.status = "completed"]
    <2>2. r \in RunState BY <2>1
    <2>3. NodeResults(n, s) = {r} BY <1>9, Pillar7Result
    <2> HIDE DEF r
    <2> QED BY <2>2, <2>3
  <1>10. CASE n \in GateNodes BY <1>10 DEF NodeResults, gate_node, GateNodes
  <1> QED BY <1>1, <1>2, <1>3, <1>4, <1>5, <1>6, <1>7, <1>8, <1>9, <1>10 DEF Nodes

\* Where an edge leads, seen from the node that it leads to.
LEMMA Edges ==
    ASSUME NEW cp \in Checkpoint, next_of(cp) \in Nodes
    PROVE  LET n == next_of(cp)
           IN  /\ n \in After2 <=> cp.last \in After2 \/ n = "run_pillar_2"
               /\ n \in After3 <=> cp.last \in After3 \/ n = "run_pillar_3"
               /\ n \in After4 <=> cp.last \in After4 \/ n = "run_pillar_4"
               /\ n \in After5 <=> cp.last \in After5 \/ n = "run_pillar_5"
               /\ n \in After6 <=> cp.last \in After6 \/ n = "run_pillar_6"
               /\ n \in After7 <=> cp.last \in After7 \/ n = "run_pillar_7"
               /\ n = "infra_spend_gate" => cp.values.output[5] = "costly"
               /\ n = "pivot_rerun" => /\ cp.last = "validation_gate"
                                       /\ cp.values.retry_count < MaxPivotRetries
               /\ n = "run_pillar_2" => /\ cp.last = "validation_gate"
                                        /\ cp.values.gate_decision = "approved"
               /\ n = "run_pillar_3" => /\ cp.last = "architecture_gate"
                                        /\ cp.values.gate_decision = "approved"
               /\ n = "run_pillar_6" => \/ cp.values.output[5] # "costly"
                                        \/ /\ cp.last = "infra_spend_gate"
                                           /\ cp.values.gate_decision = "approved"
               /\ n = "run_pillar_7" => /\ cp.last = "launch_gate"
                                        /\ cp.values.gate_decision = "approved"
  <1> DEFINE n == next_of(cp)
  <1>1. /\ cp.last = "START" => n = "validate_input"
        /\ cp.last = "validate_input" => n \in {"run_pillar_1", "END"}
        /\ cp.last = "run_pillar_1" => n = "validation_gate"
        /\ cp.last = "pivot_rerun" => n = "run_pillar_1"
        /\ cp.last = "run_pillar_2" => n = "architecture_gate"
        /\ cp.last = "run_pillar_3" => n = "run_pillar_4"
        /\ cp.last = "run_pillar_4" => n = "run_pillar_5"
        /\ cp.last = "run_pillar_6" => n = "launch_gate"
        /\ cp.last = "run_pillar_7" => n = "END"
    BY DEF next_of, NextNode, route_after_validate_input
  <1>2. cp.last = "validation_gate" =>
          \/ n = "END"
          \/ n = "run_pillar_2" /\ cp.values.gate_decision = "approved"
          \/ n = "pivot_rerun" /\ cp.values.retry_count < MaxPivotRetries
    BY DEF next_of, NextNode, route_after_validation_gate
  <1>3. cp.last = "run_pillar_5" =>
          \/ n = "infra_spend_gate" /\ cp.values.output[5] = "costly"
          \/ n = "run_pillar_6" /\ cp.values.output[5] # "costly"
    BY DEF next_of, NextNode, route_after_pillar_5
  <1>4. /\ cp.last = "architecture_gate" =>
             n = "END" \/ (n = "run_pillar_3" /\ cp.values.gate_decision = "approved")
        /\ cp.last = "infra_spend_gate" =>
             n = "END" \/ (n = "run_pillar_6" /\ cp.values.gate_decision = "approved")
        /\ cp.last = "launch_gate" =>
             n = "END" \/ (n = "run_pillar_7" /\ cp.values.gate_decision = "approved")
    BY DEF next_of, NextNode, route_on_approval
  <1>5. cp.last \in Nodes \cup {"START"} /\ n \in Nodes BY DEF Checkpoint
  <1> HIDE DEF n
  <1>6. /\ n \in After2 <=> cp.last \in After2 \/ n = "run_pillar_2"
        /\ n \in After3 <=> cp.last \in After3 \/ n = "run_pillar_3"
        /\ n \in After4 <=> cp.last \in After4 \/ n = "run_pillar_4"
        /\ n \in After5 <=> cp.last \in After5 \/ n = "run_pillar_5"
        /\ n \in After6 <=> cp.last \in After6 \/ n = "run_pillar_6"
        /\ n \in After7 <=> cp.last \in After7 \/ n = "run_pillar_7"
    BY <1>1, <1>2, <1>3, <1>4, <1>5
    DEF Nodes, GateNodes, After2, After3, After4, After5, After6, After7
  <1>7. /\ n = "infra_spend_gate" => cp.values.output[5] = "costly"
        /\ n = "pivot_rerun" => /\ cp.last = "validation_gate"
                                /\ cp.values.retry_count < MaxPivotRetries
        /\ n = "run_pillar_2" => /\ cp.last = "validation_gate"
                                 /\ cp.values.gate_decision = "approved"
        /\ n = "run_pillar_3" => /\ cp.last = "architecture_gate"
                                 /\ cp.values.gate_decision = "approved"
        /\ n = "run_pillar_6" => \/ cp.values.output[5] # "costly"
                                 \/ /\ cp.last = "infra_spend_gate"
                                    /\ cp.values.gate_decision = "approved"
        /\ n = "run_pillar_7" => /\ cp.last = "launch_gate"
                                 /\ cp.values.gate_decision = "approved"
    BY <1>1, <1>2, <1>3, <1>4, <1>5 DEF Nodes, GateNodes
  <1> QED BY <1>6, <1>7 DEF n

\* From a gate no edge leads straight to another gate.
LEMMA NoGateAfterGate ==
    ASSUME NEW cp \in Checkpoint, cp.last \in GateNodes
    PROVE  next_of(cp) \notin GateNodes
  BY DEF Checkpoint, next_of, NextNode, GateNodes, route_after_validation_gate,
         route_on_approval

\* resume's update is a checkpoint at the same node, with the same outputs.
LEMMA InjectType ==
    ASSUME NEW cp \in Checkpoint, NEW d \in Decisions, NEW t \in Ideas \cup {NoPivot}
    PROVE  /\ inject(cp, d, t) \in Checkpoint
           /\ inject(cp, d, t).last = cp.last
           /\ inject(cp, d, t).values.gate_decision = d
           /\ inject(cp, d, t).values.output = cp.values.output
           /\ inject(cp, d, t).values.status = cp.values.status
           /\ inject(cp, d, t).values.retry_count = cp.values.retry_count
  BY DEF Checkpoint, RunState, inject

\* Away from the gates, an edge depends on the status and on the outputs only.
LEMMA EdgeInputs ==
    ASSUME NEW last \in (Nodes \cup {"START"}) \ GateNodes,
           NEW s \in RunState, NEW u \in RunState,
           s.status = u.status, s.output = u.output
    PROVE  NextNode(last, s) = NextNode(last, u)
  <1>1. route_after_validate_input(s) = route_after_validate_input(u)
    BY DEF route_after_validate_input
  <1>2. route_after_pillar_5(s) = route_after_pillar_5(u)
    BY DEF route_after_pillar_5
  <1> QED BY <1>1, <1>2 DEF NextNode, Nodes, GateNodes

\* A decision does not move a run to another gate.
LEMMA InjectGate ==
    ASSUME NEW cp \in Checkpoint, NEW d \in Decisions, NEW t \in Ideas \cup {NoPivot},
           next_of(inject(cp, d, t)) \in GateNodes
    PROVE  next_of(inject(cp, d, t)) = next_of(cp)
  <1> DEFINE ip == inject(cp, d, t)
  <1>1. /\ ip \in Checkpoint /\ ip.last = cp.last
        /\ ip.values.output = cp.values.output /\ ip.values.status = cp.values.status
    BY InjectType
  <1>2. cp.last \notin GateNodes BY <1>1, NoGateAfterGate
  <1> HIDE DEF ip
  <1>3. /\ cp.last \in (Nodes \cup {"START"}) \ GateNodes
        /\ ip.values \in RunState /\ cp.values \in RunState
    BY <1>1, <1>2 DEF Checkpoint
  <1>4. next_of(ip) = next_of(cp) BY <1>1, <1>3, EdgeInputs DEF next_of
  <1> QED BY <1>4 DEF ip

\* What each node writes and what it keeps, as far as the preservation of the
\* invariant rests on it (nodes.py).
LEMMA NodeEffects ==
    ASSUME NEW s \in RunState, NEW n \in Nodes, NEW r \in NodeResults(n, s)
    PROVE  /\ n # "pivot_rerun" => /\ r.gate_decision = s.gate_decision
                                   /\ r.retry_count = s.retry_count
           /\ n = "pivot_rerun" => /\ r.gate_decision = "none"
                                   /\ r.retry_count = s.retry_count + 1
           /\ n \notin {"run_pillar_1", "pivot_rerun"} => r.output[1] = s.output[1]
           /\ n = "run_pillar_1" => r.output[1] # "none" \/ r.output[1] = s.output[1]
           /\ n = "pivot_rerun" => r.output[1] = "none"
           /\ n # "run_pillar_2" => r.output[2] = s.output[2]
           /\ n # "run_pillar_3" => r.output[3] = s.output[3]
           /\ n # "run_pillar_4" => r.output[4] = s.output[4]
           /\ n # "run_pillar_5" => r.output[5] = s.output[5]
           /\ n # "run_pillar_6" => r.output[6] = s.output[6]
           /\ n # "run_pillar_7" => r.output[7] = s.output[7]
           /\ n = "run_pillar_2" => r.output[2] # "none"
           /\ n = "run_pillar_3" => r.output[3] # "none"
           /\ n = "run_pillar_4" => r.output[4] # "none"
           /\ n = "run_pillar_5" => r.output[5] # "none" \/ r.output[5] = s.output[5]
           /\ n = "run_pillar_6" => r.output[6] # "none"
           /\ n = "run_pillar_7" => r.output[7] # "none"
  <1> USE RunGraphAssumption DEF RunState, Outputs, Pillars
  <1>1. CASE n = "validate_input" BY <1>1 DEF NodeResults, validate_input
  <1>2. CASE n = "run_pillar_1" BY <1>2 DEF NodeResults, run_pillar_1
  <1>3. CASE n = "pivot_rerun"
    <2>1. r = [s EXCEPT !.retry_count = s.retry_count + 1, !.gate_decision = "none",
                        !.output = [s.output EXCEPT ![1] = "none"]]
      BY <1>3, PivotResult
    <2>2. r.output = [s.output EXCEPT ![1] = "none"] /\ r.gate_decision = "none"
          /\ r.retry_count = s.retry_count + 1
      BY <2>1
    <2> QED BY <1>3, <2>2
  <1>4. CASE n = "run_pillar_2" BY <1>4 DEF NodeResults, run_pillar_2
  <1>5. CASE n = "run_pillar_3" BY <1>5 DEF NodeResults, run_pillar_3
  <1>6. CASE n = "run_pillar_4" BY <1>6 DEF NodeResults, run_pillar_4
  <1>7. CASE n = "run_pillar_5" BY <1>7 DEF NodeResults, run_pillar_5
  <1>8. CASE n = "run_pillar_6" BY <1>8 DEF NodeResults, run_pillar_6
  <1>9. CASE n = "run_pillar_7"
    <2>1. r = [s EXCEPT !.output = [s.output EXCEPT ![7] = "stub"], !.status = "completed"]
      BY <1>9, Pillar7Result
    <2>2. /\ r.output = [s.output EXCEPT ![7] = "stub"]
          /\ r.gate_decision = s.gate_decision
          /\ r.retry_count = s.retry_count
      BY <2>1
    <2> QED BY <1>9, <2>2
  <1>10. CASE n \in GateNodes BY <1>10 DEF NodeResults, gate_node, GateNodes
  <1> QED BY <1>1, <1>2, <1>3, <1>4, <1>5, <1>6, <1>7, <1>8, <1>9, <1>10 DEF Nodes

\* A run starts in position.
LEMMA StartIsPositioned ==
    ASSUME NEW idea \in Ideas
    PROVE  LET cp == [last |-> "START", values |-> make_initial_state(idea)]
           IN  cp \in Checkpoint /\ Positioned(cp)
  <1> DEFINE cp == [last |-> "START", values |-> make_initial_state(idea)]
  <1>1. make_initial_state(idea) \in RunState
    BY DEF make_initial_state, RunState, Outputs, Pillars
  <1>2. cp \in Checkpoint BY <1>1 DEF Checkpoint
  <1>3. \A p \in Pillars : cp.values.output[p] = "none"
    BY DEF make_initial_state
  <1>4. Positioned(cp)
    BY <1>3 DEF Positioned, Pillars, After2, After3, After4, After5, After6, After7, GateNodes
  <1> QED BY <1>2, <1>4

\* A superstep leads from a position to a position (graph.build_run_graph).
LEMMA SuperStepKeepsPosition ==
    ASSUME NEW cp \in Checkpoint, Positioned(cp), next_of(cp) \in Nodes,
           NEW r \in NodeResults(next_of(cp), cp.values)
    PROVE  LET after == [last |-> next_of(cp), values |-> r]
           IN  after \in Checkpoint /\ Positioned(after)
  <1> DEFINE n == next_of(cp)
             after == [last |-> n, values |-> r]
  <1>1. cp.values \in RunState /\ n \in Nodes BY DEF Checkpoint
  <1>2. r \in RunState BY <1>1, NodeResultsType
  <1>3. after.last = n /\ after.values = r OBVIOUS
  <1>4. after \in Checkpoint BY <1>1, <1>2 DEF Checkpoint
  <1> HIDE DEF n, after
  <1>5. Positioned(after)
    BY <1>1, <1>3, NodeEffects, Edges DEF Positioned, n, After5
  <1> QED BY <1>4, <1>5 DEF n, after

\* A resume, and the write of active_gate_id, keep it (engine.resume).
LEMMA InjectKeepsPosition ==
    ASSUME NEW cp \in Checkpoint, Positioned(cp),
           NEW d \in Decisions, NEW t \in Ideas \cup {NoPivot}
    PROVE  inject(cp, d, t) \in Checkpoint /\ Positioned(inject(cp, d, t))
  BY InjectType DEF Positioned

=============================================================================
