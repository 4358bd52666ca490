------------------------------ MODULE Architect ------------------------------
(***************************************************************************)
(* agents/architect: three designs side by side, the plans that follow     *)
(* from the stack, and the founder's gate.  A rejected design goes back to *)
(* select_stack.  A part of the design is represented by the number of the *)
(* stack it was made for, 0 for none.                                      *)
(***************************************************************************)
EXTENDS Naturals

CONSTANT ArchitectLimit   \* LangGraph's default recursion_limit

VARIABLES status, steps, next, done, read, st

Edges == [
    extract_requirements |-> {"design_erd", "design_api_contract", "select_stack"},
    design_erd           |-> {"design_join"},
    design_api_contract  |-> {"design_join"},
    select_stack         |-> {"design_join"},
    auth_strategy        |-> {"scaling_plan"},
    scaling_plan         |-> {"cost_forecast"},
    cost_forecast        |-> {"compose_featurelist"},
    error_end            |-> {}]

Unwritten ==
    [requirements |-> FALSE, erd |-> "none", contract |-> "none", drawn_from |-> "none",
     stack |-> 0, design_complete |-> FALSE, auth |-> 0, scaling |-> 0, cost |-> 0,
     pricing_source |-> "none", is_estimate |-> FALSE, features |-> 0, listed |-> FALSE]

\* MermaidTool.validate of what the LLM drew: empty, no diagram or without the required
\* columns, or good.
Drawings == {"none", "invalid", "valid"}

\* OpenAPIValidateTool.validate of the last of at most two answers.
Specifications == {"none", "invalid", "valid"}

\* AWSPricingTool.get_prices: the API answered, or the table takes its place.
get_prices == {"live", "static_fallback"}

\* What the caller passed, "pending" when it passed nothing.
Approvals == {"pending", "approved", "rejected"}

Initial(approval) == [design |-> Unwritten, approval_status |-> approval]

\* No redesign needs fewer supersteps than there are nodes between two stacks.
Stacks == 0..ArchitectLimit

TypeOK ==
    /\ st.approval_status \in Approvals
    /\ st.design \in
           [requirements : BOOLEAN, erd : Drawings, contract : Specifications,
            drawn_from : Drawings, stack : Stacks, design_complete : BOOLEAN,
            auth : Stacks, scaling : Stacks, cost : Stacks,
            pricing_source : get_prices \cup {"none"}, is_estimate : BOOLEAN,
            features : Stacks, listed : BOOLEAN]

-----------------------------------------------------------------------------

route_after_design_join(s) ==
    IF s.design.design_complete THEN {"auth_strategy"} ELSE {"error_end"}

route_after_featurelist(s) == IF s.design.listed THEN {"hitl_gate"} ELSE {"error_end"}

\* Nothing between two visits of the gate changes approval_status: a rejected design
\* comes back as often as LangGraph allows.
route_after_hitl(s) ==
    CASE s.approval_status = "approved" -> {}
      [] s.approval_status = "rejected" -> {"select_stack"}
      [] s.approval_status = "pending"  -> {"error_end"}

Successors(n, s) ==
    CASE n = "design_join"         -> route_after_design_join(s)
      [] n = "compose_featurelist" -> route_after_featurelist(s)
      [] n = "hitl_gate"           -> route_after_hitl(s)
      [] OTHER                     -> Edges[n]

extract_requirements(d) == {[d EXCEPT !.requirements = found] : found \in BOOLEAN}

\* What is wrong with the drawing is recorded; the drawing is kept.
design_erd(d) == {[d EXCEPT !.erd = drawing] : drawing \in Drawings}

\* An invalid contract is asked for once more; of the drawing beside it the prompt has
\* what the superstep began with.
design_api_contract(r, d) ==
    {[d EXCEPT !.contract = spec, !.drawn_from = r.erd] : spec \in Specifications}

\* The default stack fills in what the LLM left empty.
select_stack(d) == [d EXCEPT !.stack = @ + 1]

\* Mutant: the join is content with two designs.
design_join_lenient(d) ==
    [d EXCEPT !.design_complete = d.erd # "none" \/ d.contract # "none"]

design_join(d) ==
    [d EXCEPT !.design_complete = d.erd # "none" /\ d.contract # "none" /\ d.stack # 0]

auth_strategy(d) == [d EXCEPT !.auth = d.stack]

\* Mutant: a plan that is there is not made again.
scaling_plan_once(d) == IF d.scaling # 0 THEN d ELSE [d EXCEPT !.scaling = d.stack]

scaling_plan(d) == [d EXCEPT !.scaling = d.stack]

\* From the table the forecast is an estimate, whatever the LLM calls it.
is_estimate(source) == IF source = "static_fallback" THEN {TRUE} ELSE BOOLEAN

cost_forecast(d) ==
    UNION {{[d EXCEPT !.cost = d.scaling, !.pricing_source = source, !.is_estimate = e] :
                e \in is_estimate(source)} :
           source \in get_prices}

compose_featurelist(d) == {[d EXCEPT !.features = d.stack, !.listed = l] : l \in BOOLEAN}

Designs(n, r, d) ==
    CASE n = "extract_requirements" -> extract_requirements(d)
      [] n = "design_erd"           -> design_erd(d)
      [] n = "design_api_contract"  -> design_api_contract(r, d)
      [] n = "select_stack"         -> {select_stack(d)}
      [] n = "design_join"          -> {design_join(d)}
      [] n = "auth_strategy"        -> {auth_strategy(d)}
      [] n = "scaling_plan"         -> {scaling_plan(d)}
      [] n = "cost_forecast"        -> cost_forecast(d)
      [] n = "compose_featurelist"  -> compose_featurelist(d)
      [] OTHER                      -> {d}

Returns(n, r, s) == {[s EXCEPT !.design = d] : d \in Designs(n, r.design, s.design)}

\* call_llm raises after three attempts, or when no key is configured.
Raises(n, r) == n \notin {"design_join", "hitl_gate", "error_end"}

Graph == INSTANCE AgentGraph WITH Entry <- "extract_requirements",
                                  RecursionLimit <- ArchitectLimit

-----------------------------------------------------------------------------

\* A feature list without features is refused.  What verify finds wrong with the rest is
\* in the value that BaseAgent.run does not read.
_state_to_output ==
    /\ status = "ended"
    /\ status' = IF st.design.listed THEN "returned" ELSE "failed"
    /\ UNCHANGED <<steps, next, done, read, st>>

Init == \E approval \in Approvals : Graph!Start(Initial(approval))

\* execute calls the graph's blocking invoke: no timeout interrupts it, but the
\* process may die.
Next == Graph!Step \/ _state_to_output \/ Graph!abandoned

-----------------------------------------------------------------------------

\* What the founder is shown at the gate, on every visit, and what is returned belong
\* together: after each redesign the auth, scaling and cost plans and the feature list
\* are those of the stack that was selected last, on top of a drawing and a contract
\* (route_after_hitl, design_join, _state_to_output).
DesignIsOfOneStack ==
    "hitl_gate" \in next \/ status = "returned" =>
        /\ {st.design.auth, st.design.scaling, st.design.cost, st.design.features}
               = {st.design.stack}
        /\ st.design.erd # "none" /\ st.design.contract # "none" /\ st.design.stack # 0

=============================================================================
