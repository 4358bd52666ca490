------------------------------ MODULE RunGraph ------------------------------
(***************************************************************************)
(* The seven-pillar StateGraph of backend/app/orchestrator: the RunState,  *)
(* what each node writes into it, and where each edge leads.  The module   *)
(* has no behaviour of its own.  RunEngine drives it with one caller at a  *)
(* time, Orchestrator with concurrent ones.                                *)
(*                                                                         *)
(* A node is a function from a RunState to the set of RunStates it may     *)
(* leave behind; an edge is a function from a node and a RunState to the   *)
(* node that comes next.  RunState fields that nothing decides on (ids,    *)
(* current_node, the event log, token counts, error texts) are left out.   *)
(***************************************************************************)
EXTENDS Naturals

CONSTANTS
    Ideas,            \* the idea texts a founder may submit, or pivot to
    BlankIdea,        \* the one that is empty after strip()
    MaxPivotRetries,  \* _MAX_PIVOT_RETRIES
    SlotKinds,        \* what the nodes of pillars 3 and 4 deliver: "stub" today,
                      \* "real" once their agents are wired in
    NoPivot           \* pivot_text = None

ASSUME RunGraphAssumption ==
    /\ NoPivot \notin Ideas
    /\ MaxPivotRetries \in Nat
    /\ SlotKinds \subseteq {"stub", "real"}

Pillars == 1..7

\* "costly" is a real deployment_output whose monthly cost is over
\* INFRA_SPEND_THRESHOLD_CENTS; the stub one carries no monthly cost.
Outputs == {"none", "stub", "real", "costly"}

\* GateState, which is also the type of a founder's decision.
Decisions == {"pending", "approved", "rejected", "timed_out"}

\* Mutant: graph._GATE_NODES lacks a gate, so nothing interrupts before it.
GateNodesIncomplete == {"validation_gate", "infra_spend_gate", "launch_gate"}

GateNodes == {"validation_gate", "architecture_gate", "infra_spend_gate", "launch_gate"}

Nodes == GateNodes \cup
    {"validate_input", "run_pillar_1", "pivot_rerun", "run_pillar_2", "run_pillar_3",
     "run_pillar_4", "run_pillar_5", "run_pillar_6", "run_pillar_7"}

\* active_gate_id is 0 for None, else the number of a row of the gates table.
RunState == [status : {"queued", "running", "failed", "completed"},
             idea_text : Ideas,
             retry_count : Nat,
             gate_decision : Decisions \cup {"none"},
             active_gate_id : Nat,
             output : [Pillars -> Outputs]]

make_initial_state(idea) ==
    [status |-> "queued", idea_text |-> idea, retry_count |-> 0,
     gate_decision |-> "none", active_gate_id |-> 0,
     output |-> [p \in Pillars |-> "none"]]

-----------------------------------------------------------------------------
(* Nodes *)

validate_input(s) ==
    {[s EXCEPT !.status = IF s.idea_text = BlankIdea THEN "failed" ELSE "running"]}

\* The agent's output (a stub one without an API key), or its failure, which
\* marks the state failed and leaves strategy_output as it was.
run_pillar_1(s) ==
    {[s EXCEPT !.output[1] = o] : o \in {"stub", "real"}} \cup {[s EXCEPT !.status = "failed"]}

\* Mutant: the retry counter is not written back.
pivot_rerun_uncounted(s) == {[s EXCEPT !.gate_decision = "none", !.output[1] = "none"]}

pivot_rerun(s) ==
    {[s EXCEPT !.retry_count = @ + 1, !.gate_decision = "none", !.output[1] = "none"]}

run_pillar_2(s) == {[s EXCEPT !.output[2] = "stub"]}

\* Mutant: the node returns without its output.
run_pillar_3_empty(s) == {s}

run_pillar_3(s) == {[s EXCEPT !.output[3] = o] : o \in SlotKinds}

run_pillar_4(s) == {[s EXCEPT !.output[4] = o] : o \in SlotKinds}

UpstreamIsReal(s) == s.output[4] # "stub" /\ s.output[3] \notin {"stub", "none"}

run_pillar_5(s) ==
    IF UpstreamIsReal(s)
    THEN {[s EXCEPT !.output[5] = o] : o \in {"real", "costly"}}
           \cup {[s EXCEPT !.status = "failed"]}
    ELSE {[s EXCEPT !.output[5] = "stub"]}

run_pillar_6(s) == {[s EXCEPT !.output[6] = "stub"]}

run_pillar_7(s) == {[s EXCEPT !.output[7] = "stub", !.status = "completed"]}

\* A gate node logs the decision and changes nothing.
gate_node(s) == {s}

NodeResults(n, s) ==
    CASE n = "validate_input" -> validate_input(s)
      [] n = "run_pillar_1"   -> run_pillar_1(s)
      [] n = "pivot_rerun"    -> pivot_rerun(s)
      [] n = "run_pillar_2"   -> run_pillar_2(s)
      [] n = "run_pillar_3"   -> run_pillar_3(s)
      [] n = "run_pillar_4"   -> run_pillar_4(s)
      [] n = "run_pillar_5"   -> run_pillar_5(s)
      [] n = "run_pillar_6"   -> run_pillar_6(s)
      [] n = "run_pillar_7"   -> run_pillar_7(s)
      [] OTHER                -> gate_node(s)

-----------------------------------------------------------------------------
(* Edges *)

route_after_validate_input(s) ==
    IF s.status = "failed" THEN "END" ELSE "run_pillar_1"

\* Mutant: off by one against the retry limit.
route_after_validation_gate_inclusive(s) ==
    CASE s.gate_decision = "approved" -> "run_pillar_2"
      [] s.gate_decision = "rejected" /\ s.retry_count <= MaxPivotRetries -> "pivot_rerun"
      [] OTHER -> "END"

route_after_validation_gate(s) ==
    CASE s.gate_decision = "approved" -> "run_pillar_2"
      [] s.gate_decision = "rejected" /\ s.retry_count < MaxPivotRetries -> "pivot_rerun"
      [] OTHER -> "END"

\* Mutants: a node name that the graph does not have; no look at the cost.
route_after_pillar_5_misnamed(s) ==
    IF s.output[5] = "costly" THEN "infra_gate" ELSE "run_pillar_6"

route_after_pillar_5_ungated(s) == "run_pillar_6"

route_after_pillar_5(s) ==
    IF s.output[5] = "costly" THEN "infra_spend_gate" ELSE "run_pillar_6"

\* Mutant: only a rejection stops the run, so a timeout lets it pass.
route_unless_rejected(s, pillar) == IF s.gate_decision # "rejected" THEN pillar ELSE "END"

\* The three later gates: on an approval to the next pillar, else to the end.
route_on_approval(s, pillar) == IF s.gate_decision = "approved" THEN pillar ELSE "END"

NextNode(last, s) ==
    CASE last = "START"             -> "validate_input"
      [] last = "validate_input"    -> route_after_validate_input(s)
      [] last = "run_pillar_1"      -> "validation_gate"
      [] last = "validation_gate"   -> route_after_validation_gate(s)
      [] last = "pivot_rerun"       -> "run_pillar_1"
      [] last = "run_pillar_2"      -> "architecture_gate"
      [] last = "architecture_gate" -> route_on_approval(s, "run_pillar_3")
      [] last = "run_pillar_3"      -> "run_pillar_4"
      [] last = "run_pillar_4"      -> "run_pillar_5"
      [] last = "run_pillar_5"      -> route_after_pillar_5(s)
      [] last = "infra_spend_gate"  -> route_on_approval(s, "run_pillar_6")
      [] last = "run_pillar_6"      -> "launch_gate"
      [] last = "launch_gate"       -> route_on_approval(s, "run_pillar_7")
      [] last = "run_pillar_7"      -> "END"

-----------------------------------------------------------------------------
(* LangGraph's checkpoint, external to the repository: the state and the    *)
(* node that wrote it last.  What comes next is always that node's edge,    *)
(* evaluated again on the state: aupdate_state writes as the last node, so  *)
(* a decision injected late re-routes a run that had already ended.         *)

Checkpoint == [last : Nodes \cup {"START"}, values : RunState]

next_of(cp) == NextNode(cp.last, cp.values)

interrupt_before(cp) == next_of(cp) \in GateNodes

\* The update of OrchestratorEngine.resume.
inject(cp, decision, pivot_text) ==
    [cp EXCEPT !.values.gate_decision = decision,
               !.values.active_gate_id = 0,
               !.values.idea_text = IF pivot_text = NoPivot THEN @ ELSE pivot_text]

=============================================================================
