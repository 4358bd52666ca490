---------------------------- MODULE DevOpsProofs ----------------------------
(***************************************************************************)
(* The safety of DevOps for any number of services, requests and attempts  *)
(* and any timeouts.                                                       *)
(***************************************************************************)
EXTENDS DevOps, TLAPS

Statuses == {"idle", "running", "succeeded", "failed"}

States ==
    [approval_status : {"pending", "approved", "rejected", "timed_out"},
     task_defs : {0, services}, deploy_status : {"pending", "healthy", "failed"},
     live_url : BOOLEAN, smoke_tests_passed : BOOLEAN, outputs : SUBSET Outputs]

\* An attempt that runs has a number.
Started == status = "running" => attempt # 0

\* Above the cap and without approval, the graph waits in front of its first spending
\* node: no thread of this or an earlier attempt is out and nothing has been created.
Held ==
    spend = "above_cap" /\ "approved" \notin decided =>
        /\ key # "approved"
        /\ st.approval_status # "approved"
        /\ next \subseteq {"ingest_input", "hitl_spend_gate", "error_handler"}
        /\ in_flight = {}
        /\ cloud = {}

IInv == TypeOK /\ Started /\ Held

\* The nodes that the proofs name.
LEMMA NodesAreNamed ==
    /\ DOMAIN Edges \subseteq Nodes
    /\ "ingest_input" \in Nodes /\ "hitl_spend_gate" \in Nodes /\ "error_handler" \in Nodes
    /\ "attach_foundation_network" \in Nodes /\ "configure_dns_ssl" \in Nodes
    /\ "render_deploy_report" \in Nodes
  BY DEF Nodes, Edges

\* The edges stay within the graph.
LEMMA EdgesLeadToNodes ==
    \A n \in DOMAIN Edges : Edges[n] \subseteq Nodes
  BY DEF Nodes, Edges

\* So do the routers, whatever state they read.
LEMMA SuccessorsAreNodes ==
    ASSUME NEW n \in Nodes, NEW s
    PROVE  Successors(n, s) \subseteq Nodes
  BY NodesAreNamed, EdgesLeadToNodes
     DEF Nodes, Successors, route_after_hitl, route_after_deploy, route_after_smoke

\* Writing an output keeps the type of the state.
LEMMA WithIsAState ==
    ASSUME NEW s \in States, NEW o \in Outputs
    PROVE  With(s, o) \in States
  BY DEF With, States

\* The nodes that write one output keep it, too.
LEMMA OutputNodesType ==
    ASSUME NEW s \in States
    PROVE  /\ attach_foundation_network(s) \in States
           /\ provision_compute(s) \in States
           /\ provision_data_layer(s) \in States
           /\ provision_secrets(s) \in States
           /\ configure_codedeploy(s) \in States
           /\ configure_monitoring(s) \in States
           /\ configure_cicd(s) \in States
           /\ render_deploy_report(s) \in States
  BY WithIsAState
     DEF Outputs, attach_foundation_network, provision_compute, provision_data_layer,
         provision_secrets, configure_codedeploy, configure_monitoring, configure_cicd,
         render_deploy_report

\* So do the others.
LEMMA DeployNodesType ==
    ASSUME NEW s \in States
    PROVE  /\ build_task_defs(s) \in States
           /\ deploy_application(s) \in States
           /\ configure_dns_ssl(s) \in States
           /\ smoke_test(s) \subseteq States
           /\ error_handler(s) \in States
  <1>1. build_task_defs(s) \in States
    BY DEF States, build_task_defs
  <1>2. deploy_application(s) \in States
    BY DEF States, deploy_application
  <1>3. configure_dns_ssl(s) \in States
    BY DEF States, configure_dns_ssl
  <1>4. smoke_test(s) \subseteq States
    BY DEF States, smoke_test
  <1>5. error_handler(s) \in States
    BY DEF States, error_handler
  <1> QED BY <1>1, <1>2, <1>3, <1>4, <1>5

\* Whatever a node returns is a state of the graph.
LEMMA ResultsAreStates ==
    ASSUME st \in States, NEW n \in Nodes
    PROVE  NodeResults(n) \subseteq States
  BY OutputNodesType, DeployNodesType DEF NodeResults


\* An attempt starts with a state.
LEMMA UnstartedIsAState == Unstarted \in States
  BY DEF Unstarted, States, Outputs

\* A node makes a number of calls.
LEMMA CallsAreCounted ==
    ASSUME services \in Nat, NEW n
    PROVE  Len(CallsOf(n)) \in Nat
  <1>1. CASE n = "provision_secrets"
    BY <1>1 DEF CallsOf
  <1>2. CASE n # "provision_secrets"
    BY <1>2 DEF CallsOf
  <1> QED BY <1>1, <1>2

\* Without approval the graph stays in front of its first spending node.
LEMMA HeldSuccessors ==
    ASSUME NEW n \in {"ingest_input", "hitl_spend_gate", "error_handler"}, NEW s,
           s.approval_status # "approved"
    PROVE  Successors(n, s) \subseteq {"ingest_input", "hitl_spend_gate", "error_handler"}
  BY DEF Successors, Edges, route_after_hitl

\* No node but the gate approves.
LEMMA HeldResults ==
    ASSUME NEW n \in {"ingest_input", "error_handler"}, st \in States,
           NEW t \in NodeResults(n)
    PROVE  t.approval_status = st.approval_status
  BY DEF NodeResults, error_handler, States

\* The initial state satisfies the invariant.
LEMMA InitHolds == Init => IInv
  BY DevOpsAssumption
     DEF DevOpsAssumption, Init, IInv, TypeOK, Started, Held, Unstarted, Unasked, Outputs

\* An attempt starts in front of the gate, whatever came before it.
LEMMA StartHolds ==
    ASSUME IInv, start
    PROVE  IInv'
  <1>1. TypeOK'
    BY NodesAreNamed, UnstartedIsAState, DevOpsAssumption
       DEF IInv, TypeOK, States, DevOpsAssumption, inputs, founder, start
  <1>2. Started'
    BY DEF IInv, Started, TypeOK, inputs, agent, founder, start, Unstarted, Outputs
  <1>3. Held'
    BY DEF IInv, Held, TypeOK, inputs, agent, founder, start, Unstarted, Outputs
  <1> QED BY <1>1, <1>2, <1>3 DEF IInv

\* The next superstep stays in front of the gate that has not approved.
LEMMA SuperstepHolds ==
    ASSUME IInv, superstep
    PROVE  IInv'
  <1>1. TypeOK'
    BY SuccessorsAreNodes DEF IInv, TypeOK, States, inputs, agent, founder, superstep
  <1>2. Started'
    BY DEF IInv, Started, TypeOK, inputs, agent, founder, superstep
  <1>3. Held'
    BY HeldSuccessors DEF IInv, Held, inputs, founder, superstep
  <1> QED BY <1>1, <1>2, <1>3 DEF IInv

\* The gate approves by the cap or by the decision it read.
LEMMA GateHolds ==
    ASSUME IInv, hitl_spend_gate
    PROVE  IInv'
  <1>1. TypeOK'
    BY DEF IInv, TypeOK, States, inputs, agent, founder, hitl_spend_gate, Running, Approve
  <1>2. Started'
    BY DEF IInv, Started, TypeOK, inputs, agent, founder, hitl_spend_gate, Running, Approve
  <1>3. Held'
    BY DEF IInv, Held, TypeOK, inputs, agent, founder, hitl_spend_gate, Running, Approve
  <1> QED BY <1>1, <1>2, <1>3 DEF IInv

\* Calls are made by nodes behind the gate.
LEMMA CallHolds ==
    ASSUME IInv, NEW n \in Nodes, call_tool(n)
    PROVE  IInv'
  <1>1. TypeOK'
    BY DEF IInv, TypeOK, Started, States, inputs, agent, founder, call_tool, Running
  <1>2. Started'
    BY DEF IInv, Started, TypeOK, inputs, agent, founder, call_tool, Running, CallsOf
  <1>3. Held'
    BY DEF IInv, Held, TypeOK, inputs, agent, founder, call_tool, Running, CallsOf
  <1> QED BY <1>1, <1>2, <1>3 DEF IInv

\* A node returns a state, and only the gate an approval.
LEMMA NodeReturnsHolds ==
    ASSUME IInv, NEW n \in Nodes, node_returns(n)
    PROVE  IInv'
  <1>1. TypeOK'
    <2>1. st \in States /\ st' \in States
      BY ResultsAreStates DEF IInv, TypeOK, States, node_returns
    <2> QED BY <2>1 DEF IInv, TypeOK, States, inputs, founder, node_returns, Running
  <1>2. Started'
    BY DEF IInv, Started, TypeOK, inputs, agent, founder, node_returns, Running
  <1>3. Held'
    <2>1. st \in States
      BY DEF IInv, TypeOK, States
    <2> QED BY <2>1, HeldResults DEF IInv, Held, inputs, founder, node_returns, Running
  <1> QED BY <1>1, <1>2, <1>3 DEF IInv

\* A call that returns was made.
LEMMA ReturnHolds ==
    ASSUME IInv, NEW c, tool_returns(c)
    PROVE  IInv'
  <1>1. TypeOK'
    BY DEF IInv, TypeOK, States, inputs, agent, founder, tool_returns
  <1>2. Started'
    BY DEF IInv, Started, TypeOK, inputs, agent, founder, tool_returns
  <1>3. Held'
    BY DEF IInv, Held, TypeOK, inputs, agent, founder, tool_returns
  <1> QED BY <1>1, <1>2, <1>3 DEF IInv

\* So was one that raises.
LEMMA RaiseHolds ==
    ASSUME IInv, NEW c, tool_raises(c)
    PROVE  IInv'
  <1>1. TypeOK'
    <2>1. \A n \in Nodes : Len(CallsOf(n)) \in Nat
      BY CallsAreCounted DEF IInv, TypeOK
    <2>2. made' \in [Nodes -> Nat]
      BY <2>1 DEF IInv, TypeOK, tool_raises
    <2>3. st \in States /\ st' \in States
      BY DEF IInv, TypeOK, States, tool_raises
    <2> QED BY <2>2, <2>3 DEF IInv, TypeOK, States, inputs, founder, tool_raises
  <1>2. Started'
    BY DEF IInv, Started, TypeOK, inputs, agent, founder, tool_raises
  <1>3. Held'
    BY DEF IInv, Held, TypeOK, inputs, agent, founder, tool_raises
  <1> QED BY <1>1, <1>2, <1>3 DEF IInv

\* The end of an attempt takes its state with it, but not its threads.
LEMMA EndHolds ==
    ASSUME IInv, NEW outcome \in {"succeeded", "failed"}, EndAs(outcome), in_flight' \subseteq in_flight
    PROVE  IInv'
  <1>1. TypeOK'
    BY UnstartedIsAState, DevOpsAssumption
       DEF IInv, TypeOK, States, DevOpsAssumption, inputs, founder, EndAs
  <1>2. Started'
    BY DEF IInv, Started, TypeOK, inputs, agent, founder, EndAs, Unstarted, Outputs
  <1>3. Held'
    BY DEF IInv, Held, TypeOK, inputs, agent, founder, EndAs, Unstarted, Outputs
  <1> QED BY <1>1, <1>2, <1>3 DEF IInv

\* Time moves the clocks and the key.
LEMMA TickHolds ==
    ASSUME IInv, tick
    PROVE  IInv'
  <1>1. TypeOK'
    BY DevOpsAssumption DEF IInv, TypeOK, States, inputs, agent, founder, tick
  <1>2. Started'
    BY DEF IInv, Started, TypeOK, inputs, agent, founder, tick
  <1>3. Held'
    BY DEF IInv, Held, TypeOK, inputs, agent, founder, tick
  <1> QED BY <1>1, <1>2, <1>3 DEF IInv

\* A request that finds no decision holds one of its own.
LEMMA CheckHolds ==
    ASSUME IInv, NEW r \in Requests, check_decision(r)
    PROVE  IInv'
  <1>1. TypeOK'
    BY DEF IInv, TypeOK, States, inputs, agent, founder, check_decision
  <1>2. Started'
    BY DEF IInv, Started, TypeOK, inputs, agent, founder, check_decision
  <1>3. Held'
    BY DEF IInv, Held, TypeOK, inputs, agent, founder, check_decision
  <1> QED BY <1>1, <1>2, <1>3 DEF IInv

\* A decision that is written is one of the two, and recorded.
LEMMA SetHolds ==
    ASSUME IInv, NEW r \in Requests, set_decision(r)
    PROVE  IInv'
  <1>1. TypeOK'
    <2>1. request[r].decision \in {"approved", "rejected"}
      BY DEF IInv, TypeOK, Unasked, Answered, set_decision
    <2>2. key' \in {"approved", "rejected"} /\ ttl' = DecisionTTL
      BY <2>1 DEF set_decision
    <2>3. request' \in [Requests -> {Unasked, Answered} \cup
                           [pc : {"checked"}, decision : {"approved", "rejected"}]]
      BY DEF IInv, TypeOK, set_decision
    <2>4. decided' \subseteq {"approved", "rejected"}
      BY <2>2 DEF IInv, TypeOK, set_decision
    <2> QED BY <2>2, <2>3, <2>4, DevOpsAssumption
            DEF IInv, TypeOK, DevOpsAssumption, inputs, agent, set_decision
  <1>2. Started'
    BY DEF IInv, Started, TypeOK, inputs, agent, founder, set_decision
  <1>3. Held'
    BY DEF IInv, Held, TypeOK, inputs, agent, founder, set_decision
  <1> QED BY <1>1, <1>2, <1>3 DEF IInv

\* Every step keeps the invariant.
LEMMA StepHolds ==
    IInv /\ [Next]_vars => IInv'
  <1> SUFFICES ASSUME IInv, [Next]_vars PROVE IInv'
    OBVIOUS
  <1>1. CASE start
    BY <1>1, StartHolds
  <1>2. CASE superstep
    BY <1>2, SuperstepHolds
  <1>3. CASE verify
    BY <1>3, EndHolds DEF verify
  <1>4. CASE sla_expires
    BY <1>4, EndHolds DEF sla_expires
  <1>5. CASE crash
    BY <1>5, EndHolds DEF crash
  <1>6. CASE tick
    BY <1>6, TickHolds
  <1>7. CASE hitl_spend_gate
    BY <1>7, GateHolds
  <1>8. ASSUME NEW n \in Nodes, Node(n) PROVE IInv'
    BY <1>8, CallHolds, NodeReturnsHolds, EndHolds DEF Node, node_raises
  <1>9. ASSUME NEW c \in in_flight, Return(c) PROVE IInv'
    BY <1>9, ReturnHolds, RaiseHolds DEF Return
  <1>10. ASSUME NEW r \in Requests, check_decision(r) \/ set_decision(r) PROVE IInv'
    BY <1>10, CheckHolds, SetHolds
  <1>11. CASE UNCHANGED vars
    BY <1>11 DEF IInv, TypeOK, Started, Held, States, Running, vars
  <1> QED
    BY <1>1, <1>2, <1>3, <1>4, <1>5, <1>6, <1>7, <1>8, <1>9, <1>10, <1>11 DEF Next

\* The invariant holds in every reachable state.
LEMMA Invariance == Spec => []IInv
  BY InitHolds, StepHolds, PTL DEF Spec

\* Every state of the DevOps agent, its attempts, its tool calls and the decision about
\* its spend has its type: the state of the graph stays one of DevOpsState, threads
\* belong to attempts that were made, and a decision is there as long as it has time to
\* live (agents/devops, devops_approvals.py).
THEOREM TypesHold == Spec => []TypeOK
  BY Invariance, PTL DEF IInv

\* Above the cap nothing is created at AWS before the founder has approved, for any
\* number of services, attempts and requests and any timeouts (hitl_spend_gate).
THEOREM SpendHolds == Spec => []SpendIsApproved
  <1>1. IInv => SpendIsApproved
    BY DEF IInv, Held, SpendIsApproved
  <1> QED BY <1>1, Invariance, PTL

-----------------------------------------------------------------------------

\* A decision that the gate of this attempt was polling for is as old as the attempt
\* at most.
Fresh ==
    /\ heard_by \in 0..attempt
    /\ key # "none" /\ heard_by = attempt /\ status = "running" =>
           DecisionTTL <= ttl + elapsed

\* Steps that leave the clock and the key alone keep Fresh.
LEMMA AgentStepsKeepFresh ==
    ASSUME IInv, Fresh, UNCHANGED founder, UNCHANGED attempt,
           status' = "running" => UNCHANGED <<status, elapsed>>
    PROVE  Fresh'
  BY DEF IInv, TypeOK, Fresh, founder

\* Every step keeps it.
LEMMA FreshHolds == IInv /\ Fresh /\ [Next]_vars => Fresh'
  <1> SUFFICES ASSUME IInv, Fresh, [Next]_vars PROVE Fresh'
    OBVIOUS
  <1>1. CASE start
    BY <1>1 DEF IInv, TypeOK, Fresh, founder, start
  <1>2. CASE tick
    BY <1>2 DEF IInv, TypeOK, Fresh, tick
  <1>3. ASSUME NEW r \in Requests, check_decision(r) PROVE Fresh'
    BY <1>3 DEF IInv, TypeOK, Fresh, agent, check_decision
  <1>4. ASSUME NEW r \in Requests, set_decision(r) PROVE Fresh'
    <2>1. CASE Running("hitl_spend_gate")
      BY <1>4, <2>1, DevOpsAssumption
         DEF DevOpsAssumption, IInv, TypeOK, Fresh, agent, set_decision
    <2>2. CASE ~Running("hitl_spend_gate")
      BY <1>4, <2>2 DEF IInv, TypeOK, Started, Fresh, agent, set_decision
    <2> QED BY <2>1, <2>2
  <1>5. CASE superstep \/ hitl_spend_gate
    BY <1>5, AgentStepsKeepFresh DEF superstep, hitl_spend_gate
  <1>6. CASE verify \/ sla_expires \/ crash
    BY <1>6, AgentStepsKeepFresh DEF verify, sla_expires, crash, EndAs
  <1>7. ASSUME NEW n \in Nodes, Node(n) PROVE Fresh'
    BY <1>7, AgentStepsKeepFresh
       DEF Node, agent, call_tool, node_returns, node_raises, EndAs
  <1>8. ASSUME NEW c \in in_flight, Return(c) PROVE Fresh'
    BY <1>8, AgentStepsKeepFresh DEF Return, tool_returns, tool_raises
  <1>9. CASE UNCHANGED vars
    BY <1>9, AgentStepsKeepFresh DEF vars, founder
  <1> QED BY <1>1, <1>2, <1>3, <1>4, <1>5, <1>6, <1>7, <1>8, <1>9 DEF Next

\* Only time takes a decision away.
LEMMA DecisionsExpire ==
    ASSUME IInv, Fresh, [Next]_vars, SLA < DecisionTTL, key # "none", key' = "none"
    PROVE  ~(Running("hitl_spend_gate") /\ heard_by = attempt)
  <1>1. CASE tick
    BY <1>1, DevOpsAssumption DEF DevOpsAssumption, IInv, TypeOK, Fresh, Running, tick
  <1>2. \A r \in Requests : ~check_decision(r)
    BY DEF check_decision
  <1>3. ASSUME NEW r \in Requests, set_decision(r) PROVE FALSE
    <2>1. request[r].decision \in {"approved", "rejected"}
      BY <1>3 DEF IInv, TypeOK, Unasked, Answered, set_decision
    <2> QED BY <1>3, <2>1 DEF set_decision
  <1>4. ~UNCHANGED founder
    BY DEF founder
  <1>5. ~start /\ ~superstep /\ ~verify /\ ~sla_expires /\ ~crash /\ ~hitl_spend_gate
    BY <1>4 DEF start, superstep, verify, sla_expires, crash, hitl_spend_gate, EndAs
  <1>6. \A n \in Nodes : ~Node(n)
    BY <1>4 DEF Node, agent, call_tool, node_returns, node_raises, EndAs
  <1>7. \A c \in in_flight : ~Return(c)
    BY <1>4 DEF Return, tool_returns, tool_raises
  <1>8. ~UNCHANGED vars
    BY DEF vars
  <1> QED BY <1>1, <1>2, <1>3, <1>5, <1>6, <1>7, <1>8 DEF Next

\* A key that lives longer than the SLA lets an attempt run is never taken from under
\* the gate that polls for it, whenever it was written (decide_devops_spend).
THEOREM DecisionOutlives ==
    ASSUME SLA < DecisionTTL
    PROVE  Spec => DecisionOutlivesItsGate
  <1>1. Init => Fresh
    BY DEF Init, Fresh
  <1>2. IInv /\ Fresh /\ [Next]_vars =>
            [key # "none" /\ key' = "none" =>
                 ~(Running("hitl_spend_gate") /\ heard_by = attempt)]_vars
    BY DecisionsExpire
  <1> QED BY <1>1, <1>2, FreshHolds, Invariance, PTL DEF Spec, DecisionOutlivesItsGate

-----------------------------------------------------------------------------
(* What a success has behind it *)

\* How many supersteps lie between the start and each node that the graph runs as long
\* as nothing has failed.
Depth == [
    ingest_input |-> 0, hitl_spend_gate |-> 1, attach_foundation_network |-> 2,
    provision_compute |-> 3, provision_data_layer |-> 3, infra_join |-> 4,
    provision_secrets |-> 5, build_task_defs |-> 6, configure_codedeploy |-> 6,
    deploy_join |-> 7, deploy_application |-> 8, configure_dns_ssl |-> 9,
    configure_monitoring |-> 10, configure_cicd |-> 10, postdeploy_join |-> 11,
    smoke_test |-> 12, render_deploy_report |-> 13]

Layer(i) == {n \in DOMAIN Depth : Depth[n] = i}

\* The node that fills in a field.
Writer == [
    vpc_config |-> "attach_foundation_network", ecs_cluster |-> "provision_compute",
    data_layer |-> "provision_data_layer", secrets |-> "provision_secrets",
    codedeploy_app |-> "configure_codedeploy",
    monitoring_config |-> "configure_monitoring", cicd_config |-> "configure_cicd",
    deploy_report_markdown |-> "render_deploy_report"]

\* The superstep is one layer of the graph, and what the layers before it, and the
\* nodes of it that have returned, fill in is there.
GatheredAt(i) ==
    /\ next = Layer(i)
    /\ \A o \in Outputs :
           Depth[Writer[o]] < i \/ Writer[o] \in done => o \in st.outputs

Gathered ==
    status = "running" => next = {"error_handler"} \/ \E i \in 0..13 : GatheredAt(i)

DeploymentOf(k) == codedeploy_create_deployment(k) \in cloud

\* A deployment was created after its application and its group.
DeploymentsHaveGroups ==
    \A k \in Nat : DeploymentOf(k) =>
        {codedeploy_create_application, codedeploy_create_deployment_group} \subseteq cloud

\* deploy_application calls for the deployment of its own attempt only, and what it has
\* called for has been created, or has made it fail.
DeploysItsOwn ==
    \A c \in in_flight : c.node = "deploy_application" =>
        c.makes = codedeploy_create_deployment(c.attempt)

HealthyIsDeployed ==
    status = "running" =>
        /\ st.deploy_status = "healthy" => DeploymentOf(attempt)
        /\ "deploy_application" \in next /\ made["deploy_application"] # 0 =>
               st.deploy_status = "failed" \/ DeploymentOf(attempt)
        /\ "error_handler" \in done => st.deploy_status = "failed"

CloudInv == DeploymentsHaveGroups /\ DeploysItsOwn

Deployed == Gathered /\ HealthyIsDeployed /\ SuccessIsDeployed

\* The layers, one by one.
LEMMA LayersListed ==
    /\ Layer(0) = {"ingest_input"}
    /\ Layer(1) = {"hitl_spend_gate"}
    /\ Layer(2) = {"attach_foundation_network"}
    /\ Layer(3) = {"provision_compute", "provision_data_layer"}
    /\ Layer(4) = {"infra_join"}
    /\ Layer(5) = {"provision_secrets"}
    /\ Layer(6) = {"build_task_defs", "configure_codedeploy"}
    /\ Layer(7) = {"deploy_join"}
    /\ Layer(8) = {"deploy_application"}
    /\ Layer(9) = {"configure_dns_ssl"}
    /\ Layer(10) = {"configure_monitoring", "configure_cicd"}
    /\ Layer(11) = {"postdeploy_join"}
    /\ Layer(12) = {"smoke_test"}
    /\ Layer(13) = {"render_deploy_report"}
  BY DEF Layer, Depth

\* The edges, one by one.
LEMMA EdgesListed ==
    /\ Edges["ingest_input"] = {"hitl_spend_gate"}
    /\ Edges["attach_foundation_network"] = {"provision_compute", "provision_data_layer"}
    /\ Edges["provision_compute"] = {"infra_join"}
    /\ Edges["provision_data_layer"] = {"infra_join"}
    /\ Edges["infra_join"] = {"provision_secrets"}
    /\ Edges["provision_secrets"] = {"build_task_defs", "configure_codedeploy"}
    /\ Edges["build_task_defs"] = {"deploy_join"}
    /\ Edges["configure_codedeploy"] = {"deploy_join"}
    /\ Edges["deploy_join"] = {"deploy_application"}
    /\ Edges["configure_dns_ssl"] = {"configure_monitoring", "configure_cicd"}
    /\ Edges["configure_monitoring"] = {"postdeploy_join"}
    /\ Edges["configure_cicd"] = {"postdeploy_join"}
    /\ Edges["postdeploy_join"] = {"smoke_test"}
    /\ Edges["render_deploy_report"] = {}
    /\ Edges["error_handler"] = {}
  BY DEF Edges

\* They lead from each layer to the next one.
LEMMA EdgesLeadOn ==
    /\ \A n \in Layer(0) : Edges[n] = Layer(1)
    /\ \A n \in Layer(2) : Edges[n] = Layer(3)
    /\ \A n \in Layer(3) : Edges[n] = Layer(4)
    /\ \A n \in Layer(4) : Edges[n] = Layer(5)
    /\ \A n \in Layer(5) : Edges[n] = Layer(6)
    /\ \A n \in Layer(6) : Edges[n] = Layer(7)
    /\ \A n \in Layer(7) : Edges[n] = Layer(8)
    /\ \A n \in Layer(9) : Edges[n] = Layer(10)
    /\ \A n \in Layer(10) : Edges[n] = Layer(11)
    /\ \A n \in Layer(11) : Edges[n] = Layer(12)
    /\ \A n \in Layer(13) : Edges[n] = {}
  BY LayersListed, EdgesListed

\* Each leads to the next one, or to the error handler; the report ends the graph.
LEMMA LayersFollow ==
    ASSUME NEW i \in 0..13, NEW s
    PROVE  LET after == UNION {Successors(n, s) : n \in Layer(i)}
           IN  IF i = 13 THEN after = {} ELSE after \in {Layer(i + 1), {"error_handler"}}
  <1> DEFINE after == UNION {Successors(n, s) : n \in Layer(i)}
  <1>1. CASE i \in {0, 2, 3, 4, 5, 6, 7, 9, 10, 11, 13}
    <2>1. \A n \in Layer(i) : Successors(n, s) = Edges[n]
      BY <1>1, LayersListed DEF Successors
    <2>2. \A n \in Layer(i) : Edges[n] = IF i = 13 THEN {} ELSE Layer(i + 1)
      BY <1>1, EdgesLeadOn
    <2>3. Layer(i) # {}
      BY <1>1, LayersListed
    <2> QED BY <1>1, <2>1, <2>2, <2>3
  <1>2. CASE i \in {1, 8, 12}
    <2>1. PICK n : Layer(i) = {n} /\ Successors(n, s) \in {Layer(i + 1), {"error_handler"}}
      BY <1>2, LayersListed
         DEF Successors, route_after_hitl, route_after_deploy, route_after_smoke
    <2>2. after = Successors(n, s)
      BY <2>1
    <2> QED BY <1>2, <2>1, <2>2
  <1> QED BY <1>1, <1>2

\* A node keeps what is there, and adds what it fills in.
LEMMA NodesGather ==
    ASSUME st \in States, NEW n \in Nodes, NEW t \in NodeResults(n)
    PROVE  /\ st.outputs \subseteq t.outputs
           /\ \A o \in Outputs : Writer[o] = n => o \in t.outputs
  <1>1. CASE n \in {"attach_foundation_network", "provision_compute", "provision_data_layer",
                   "provision_secrets", "configure_codedeploy", "configure_monitoring",
                   "configure_cicd", "render_deploy_report"}
    <2>1. PICK o \in Outputs : t = With(st, o) /\ Writer[o] = n
      BY <1>1
         DEF NodeResults, Outputs, Writer, attach_foundation_network, provision_compute,
             provision_data_layer, provision_secrets, configure_codedeploy,
             configure_monitoring, configure_cicd, render_deploy_report
    <2>2. t.outputs = st.outputs \cup {o} BY <2>1 DEF With, States
    <2>3. \A p \in Outputs : Writer[p] = Writer[o] => p = o BY DEF Outputs, Writer
    <2> QED BY <2>1, <2>2, <2>3
  <1>2. CASE n \notin {"attach_foundation_network", "provision_compute",
                      "provision_data_layer", "provision_secrets", "configure_codedeploy",
                      "configure_monitoring", "configure_cicd", "render_deploy_report"}
    <2>1. t.outputs = st.outputs
      BY <1>2
         DEF NodeResults, States, build_task_defs, deploy_application, configure_dns_ssl,
             smoke_test, error_handler
    <2>2. \A o \in Outputs : Writer[o] # n BY <1>2 DEF Outputs, Writer
    <2> QED BY <2>1, <2>2
  <1> QED BY <1>1, <1>2

\* Only deploy_application makes a deployment healthy, and nothing that has failed.
LEMMA NodesDeploy ==
    ASSUME st \in States, NEW n \in Nodes, NEW t \in NodeResults(n)
    PROVE  /\ n \notin {"deploy_application", "error_handler"} =>
                  t.deploy_status = st.deploy_status
           /\ n = "deploy_application" => \/ t.deploy_status = "failed"
                                          \/ st.task_defs # 0 /\ st.deploy_status # "failed"
           /\ n = "error_handler" => t.deploy_status = "failed"
           /\ st.deploy_status = "failed" => t.deploy_status = "failed"
  BY DEF NodeResults, States, Nodes, Edges, With, attach_foundation_network,
         provision_compute, provision_data_layer, provision_secrets, build_task_defs,
         configure_codedeploy, deploy_application, configure_dns_ssl, configure_monitoring,
         configure_cicd, smoke_test, render_deploy_report, error_handler

\* What a step leaves alone, it keeps.
LEMMA OtherStepsKeepDeployed ==
    ASSUME Deployed, UNCHANGED <<attempt, status, next, done, made, st>>, cloud \subseteq cloud'
    PROVE  Deployed'
  BY DEF Deployed, Gathered, GatheredAt, HealthyIsDeployed, SuccessIsDeployed, DeploymentOf

\* A deployment is created after what it needs, whichever attempt or thread creates it.
LEMMA CloudHolds ==
    ASSUME IInv, CloudInv, [Next]_vars
    PROVE  CloudInv'
  <1>1. ASSUME NEW c \in in_flight, Return(c) PROVE CloudInv'
    <2>1. in_flight' \subseteq in_flight
      BY <1>1 DEF Return, tool_returns, tool_raises
    <2>2. cloud' = cloud \/ (Possible(c.makes) /\ cloud' = cloud \cup {c.makes})
      BY <1>1 DEF Return, tool_returns, tool_raises
    <2>3. ASSUME NEW k \in Nat, c.makes = codedeploy_create_deployment(k), Possible(c.makes)
          PROVE  {codedeploy_create_application, codedeploy_create_deployment_group}
                     \subseteq cloud
      BY <2>3 DEF Possible, codedeploy_create_deployment, Resource
    <2>4. DeploymentsHaveGroups'
      BY <2>2, <2>3 DEF CloudInv, DeploymentsHaveGroups, DeploymentOf
    <2> QED BY <2>1, <2>4 DEF CloudInv, DeploysItsOwn
  <1>2. ASSUME NEW n \in Nodes, call_tool(n) PROVE CloudInv'
    <2>1. cloud' = cloud
      BY <1>2 DEF call_tool
    <2>2. n = "deploy_application" =>
              CallsOf(n)[made[n] + 1] = codedeploy_create_deployment(attempt)
      BY <1>2 DEF call_tool, CallsOf, IInv, TypeOK
    <2>3. DeploysItsOwn'
      BY <1>2, <2>2 DEF call_tool, CloudInv, DeploysItsOwn
    <2> QED BY <2>1, <2>3 DEF CloudInv, DeploymentsHaveGroups, DeploymentOf
  <1>3. ASSUME cloud' = cloud, in_flight' \subseteq in_flight PROVE CloudInv'
    BY <1>3 DEF CloudInv, DeploymentsHaveGroups, DeploysItsOwn, DeploymentOf
  <1>4. ASSUME NEW n \in Nodes, node_returns(n) \/ node_raises(n) PROVE CloudInv'
    BY <1>3, <1>4 DEF node_returns, node_raises, EndAs
  <1>5. CASE start \/ superstep \/ hitl_spend_gate \/ tick
    BY <1>3, <1>5 DEF start, superstep, hitl_spend_gate, tick
  <1>6. CASE verify \/ sla_expires \/ crash
    BY <1>3, <1>6 DEF verify, sla_expires, crash, EndAs
  <1>7. ASSUME NEW r \in Requests, check_decision(r) \/ set_decision(r) PROVE CloudInv'
    BY <1>3, <1>7 DEF check_decision, set_decision
  <1>8. CASE UNCHANGED vars
    BY <1>3, <1>8 DEF vars
  <1> QED BY <1>1, <1>2, <1>4, <1>5, <1>6, <1>7, <1>8 DEF Next, Node

\* A call that deploy_application waited for has created the deployment.
LEMMA ReturnKeepsDeployed ==
    ASSUME IInv, CloudInv, Deployed, NEW c, tool_returns(c)
    PROVE  Deployed'
  <1>1. UNCHANGED <<attempt, status, next, done, st>> /\ cloud' = cloud \cup {c.makes}
    BY DEF tool_returns
  <1>2. made'["deploy_application"] # made["deploy_application"] =>
            c.node = "deploy_application" /\ c.attempt = attempt
    BY DEF tool_returns, Awaited, IInv, TypeOK
  <1>3. made'["deploy_application"] # made["deploy_application"] => DeploymentOf(attempt)'
    BY <1>1, <1>2 DEF CloudInv, DeploysItsOwn, DeploymentOf, tool_returns
  <1>4. HealthyIsDeployed'
    BY <1>1, <1>3 DEF Deployed, HealthyIsDeployed, DeploymentOf
  <1>5. Gathered' /\ SuccessIsDeployed'
    BY <1>1 DEF Deployed, Gathered, GatheredAt, SuccessIsDeployed
  <1> QED BY <1>4, <1>5 DEF Deployed

\* One that raises makes it fail.
LEMMA RaiseKeepsDeployed ==
    ASSUME IInv, Deployed, NEW c, tool_raises(c)
    PROVE  Deployed'
  <1>1. UNCHANGED <<attempt, status, next, done>> /\ cloud \subseteq cloud'
    BY DEF tool_raises
  <1>2. CASE Awaited(c)
    <2>1. /\ st'.outputs = st.outputs
          /\ st'.deploy_status = IF c.node = "deploy_application" THEN "failed"
                                 ELSE st.deploy_status
      BY <1>2 DEF tool_raises, IInv, TypeOK
    <2>2. made'["deploy_application"] # made["deploy_application"] =>
              c.node = "deploy_application"
      <3>1. made \in [Nodes -> Nat] /\ "deploy_application" \in Nodes
        BY DEF IInv, TypeOK, Nodes
      <3>2. \A m \in Nodes : m # c.node => made'[m] = made[m]
        BY <1>2, <3>1 DEF tool_raises
      <3> QED BY <3>1, <3>2
    <2>3. HealthyIsDeployed'
      BY <1>1, <2>1, <2>2 DEF Deployed, HealthyIsDeployed, DeploymentOf
    <2>4. Gathered'
      BY <1>1, <2>1 DEF Deployed, Gathered, GatheredAt
    <2>5. SuccessIsDeployed'
      BY <1>1, <1>2, <2>1 DEF Deployed, SuccessIsDeployed, Awaited, Running
    <2> QED BY <2>3, <2>4, <2>5 DEF Deployed
  <1>3. CASE ~Awaited(c)
    BY <1>1, <1>3, OtherStepsKeepDeployed DEF tool_raises
  <1> QED BY <1>2, <1>3

\* The gate is one of the first nodes.
LEMMA GateKeepsDeployed ==
    ASSUME IInv, Deployed, hitl_spend_gate
    PROVE  Deployed'
  <1>1. /\ UNCHANGED <<attempt, status, next, made, cloud>>
        /\ status = "running" /\ "hitl_spend_gate" \in next
        /\ done' = {"hitl_spend_gate"}
        /\ st'.outputs = st.outputs /\ st'.deploy_status = st.deploy_status
    BY DEF hitl_spend_gate, Running, Approve, IInv, TypeOK
  <1>2. Gathered'
    <2>1. PICK i \in 0..13 : GatheredAt(i)
      BY <1>1 DEF Deployed, Gathered
    <2>2. i = 1
      BY <1>1, <2>1 DEF GatheredAt, Layer, Depth
    <2>3. \A o \in Outputs : ~(Depth[Writer[o]] < 1) /\ Writer[o] # "hitl_spend_gate"
      BY DEF Outputs, Writer, Depth
    <2>4. GatheredAt(1)'
      BY <1>1, <2>1, <2>2, <2>3 DEF GatheredAt
    <2> QED BY <2>4 DEF Gathered
  <1>3. HealthyIsDeployed'
    BY <1>1 DEF Deployed, HealthyIsDeployed, DeploymentOf
  <1>4. SuccessIsDeployed'
    BY <1>1 DEF SuccessIsDeployed
  <1> QED BY <1>2, <1>3, <1>4 DEF Deployed

\* deploy_application makes its call before it returns, or fails.
LEMMA NodeKeepsDeployed ==
    ASSUME IInv, Deployed, NEW n \in Nodes, node_returns(n)
    PROVE  Deployed'
  <1>1. /\ UNCHANGED <<attempt, status, next, made, cloud>>
        /\ status = "running" /\ n \in next
        /\ done' = done \cup {n}
        /\ made[n] = Len(CallsOf(n))
        /\ st' \in NodeResults(n)
    BY DEF node_returns, Running
  <1>2. st \in States
    BY DEF IInv, TypeOK, States
  <1>3. st.outputs \subseteq st'.outputs /\ \A o \in Outputs : Writer[o] = n => o \in st'.outputs
    BY <1>1, <1>2, NodesGather
  <1>4. /\ n \notin {"deploy_application", "error_handler"} =>
               st'.deploy_status = st.deploy_status
        /\ n = "deploy_application" => \/ st'.deploy_status = "failed"
                                       \/ st.task_defs # 0 /\ st.deploy_status # "failed"
        /\ n = "error_handler" => st'.deploy_status = "failed"
        /\ st.deploy_status = "failed" => st'.deploy_status = "failed"
    BY <1>1, <1>2, NodesDeploy
  <1>5. Gathered'
    <2>1. CASE next = {"error_handler"}
      BY <1>1, <2>1 DEF Gathered
    <2>2. CASE \E i \in 0..13 : GatheredAt(i)
      <3>1. PICK i \in 0..13 : GatheredAt(i)
        BY <2>2
      <3>2. GatheredAt(i)'
        BY <1>1, <1>3, <3>1 DEF GatheredAt
      <3> QED BY <3>2 DEF Gathered
    <2> QED BY <1>1, <2>1, <2>2 DEF Deployed, Gathered
  <1>6. n = "deploy_application" => st'.deploy_status = "failed" \/ DeploymentOf(attempt)
    <2> SUFFICES ASSUME n = "deploy_application", st'.deploy_status # "failed",
                        made[n] = 0
                 PROVE  FALSE
      BY <1>1, <1>4 DEF Deployed, HealthyIsDeployed
    <2>1. PICK i \in 0..13 : GatheredAt(i)
      BY <1>1 DEF Deployed, Gathered
    <2>2. i = 8
      BY <1>1, <2>1 DEF GatheredAt, Layer, Depth
    <2>3. Depth[Writer["codedeploy_app"]] = 6 /\ "codedeploy_app" \in Outputs
      BY DEF Depth, Writer, Outputs
    <2>4. "codedeploy_app" \in st.outputs
      BY <2>1, <2>2, <2>3 DEF GatheredAt
    <2>5. Len(CallsOf(n)) = 1
      BY <1>4, <2>4 DEF CallsOf
    <2>6. made[n] = 1
      BY <1>1, <2>5
    <2> QED BY <2>6
  <1>7. HealthyIsDeployed'
    BY <1>1, <1>4, <1>6 DEF Deployed, HealthyIsDeployed, DeploymentOf
  <1>8. SuccessIsDeployed'
    BY <1>1 DEF SuccessIsDeployed
  <1> QED BY <1>5, <1>7, <1>8 DEF Deployed

\* The next layer finds what this one has filled in.
LEMMA SuperstepKeepsDeployed ==
    ASSUME IInv, Deployed, superstep
    PROVE  Deployed'
  <1> DEFINE after == UNION {Successors(n, st) : n \in next}
  <1>1. /\ UNCHANGED <<attempt, status, st, cloud>>
        /\ status = "running" /\ done = next /\ after # {} /\ next' = after
        /\ done' = {} /\ made' = [n \in Nodes |-> 0]
    BY DEF superstep
  <1>2. Gathered'
    <2>1. next # {"error_handler"}
      <3>1. Successors("error_handler", st) = {}
        BY DEF Successors, Edges
      <3> QED BY <1>1, <3>1
    <2>2. PICK i \in 0..13 : GatheredAt(i)
      BY <1>1, <2>1 DEF Deployed, Gathered
    <2>3. i # 13 /\ (next' = Layer(i + 1) \/ next' = {"error_handler"})
      BY <1>1, <2>2, LayersFollow DEF GatheredAt
    <2>4. \A o \in Outputs : Depth[Writer[o]] < i + 1 => o \in st.outputs
      <3>1. \A o \in Outputs : Writer[o] \in DOMAIN Depth /\ Depth[Writer[o]] \in 0..13
        BY DEF Outputs, Writer, Depth
      <3>2. \A o \in Outputs : Depth[Writer[o]] = i => Writer[o] \in done
        BY <1>1, <2>2, <3>1 DEF GatheredAt, Layer
      <3> QED BY <2>2, <3>1, <3>2 DEF GatheredAt
    <2>5. CASE next' = Layer(i + 1)
      <3>1. i + 1 \in 0..13
        BY <2>3
      <3>2. GatheredAt(i + 1)'
        BY <1>1, <2>4, <2>5 DEF GatheredAt
      <3> QED BY <3>1, <3>2 DEF Gathered
    <2> QED BY <2>3, <2>5 DEF Gathered
  <1>3. HealthyIsDeployed'
    BY <1>1 DEF Deployed, HealthyIsDeployed, DeploymentOf, Nodes
  <1>4. SuccessIsDeployed'
    BY <1>1 DEF SuccessIsDeployed
  <1> QED BY <1>2, <1>3, <1>4 DEF Deployed

\* An attempt starts with nothing.
LEMMA StartKeepsDeployed ==
    ASSUME start
    PROVE  Deployed'
  <1>1. \A o \in Outputs : ~(Depth[Writer[o]] < 0)
    BY DEF Outputs, Writer, Depth
  <1>2. GatheredAt(0)'
    BY <1>1, LayersListed DEF start, GatheredAt
  <1>3. HealthyIsDeployed'
    BY DEF start, HealthyIsDeployed, Unstarted
  <1>4. SuccessIsDeployed'
    BY DEF start, SuccessIsDeployed
  <1> QED BY <1>2, <1>3, <1>4 DEF Deployed, Gathered

\* Only the report ends the graph without a failure.
LEMMA VerifyKeepsDeployed ==
    ASSUME IInv, CloudInv, Deployed, verify
    PROVE  Deployed'
  <1> DEFINE after == UNION {Successors(n, st) : n \in next}
  <1>1. /\ UNCHANGED <<attempt, cloud>> /\ status' # "running"
        /\ status = "running" /\ done = next /\ after = {}
        /\ status' = "succeeded" => Verified(st) /\ st' = st
    BY DEF verify, EndAs
  <1>2. ASSUME Verified(st)
        PROVE  /\ {codedeploy_create_application, codedeploy_create_deployment_group,
                   codedeploy_create_deployment(attempt)} \subseteq cloud
               /\ st.outputs = Outputs
    <2>1. DeploymentOf(attempt) /\ next # {"error_handler"}
      BY <1>1, <1>2 DEF Deployed, HealthyIsDeployed, Verified
    <2>2. attempt \in Nat
      BY DEF IInv, TypeOK
    <2>3. PICK i \in 0..13 : GatheredAt(i)
      BY <1>1, <2>1 DEF Deployed, Gathered
    <2>4. i = 13
      <3>1. after = UNION {Successors(n, st) : n \in Layer(i)}
        BY <2>3 DEF GatheredAt
      <3>2. i # 13 => Layer(i + 1) # {}
        BY LayersListed
      <3> QED BY <1>1, <3>1, <3>2, LayersFollow
    <2>5. \A o \in Outputs : Depth[Writer[o]] < 13 \/ Writer[o] \in Layer(13)
      BY LayersListed DEF Outputs, Writer, Depth
    <2>6. Outputs \subseteq st.outputs /\ st.outputs \subseteq Outputs
      BY <1>1, <2>3, <2>4, <2>5 DEF GatheredAt, IInv, TypeOK
    <2> QED BY <2>1, <2>2, <2>6 DEF CloudInv, DeploymentsHaveGroups, DeploymentOf
  <1> QED BY <1>1, <1>2 DEF Deployed, Gathered, HealthyIsDeployed, SuccessIsDeployed

\* Every step keeps it.
LEMMA DeployedHolds == IInv /\ CloudInv /\ Deployed /\ [Next]_vars => Deployed'
  <1> SUFFICES ASSUME IInv, CloudInv, Deployed, [Next]_vars PROVE Deployed'
    OBVIOUS
  <1>1. CASE start
    BY <1>1, StartKeepsDeployed
  <1>2. CASE superstep
    BY <1>2, SuperstepKeepsDeployed
  <1>3. CASE verify
    BY <1>3, VerifyKeepsDeployed
  <1>4. CASE hitl_spend_gate
    BY <1>4, GateKeepsDeployed
  <1>5. ASSUME EndAs("failed") PROVE Deployed'
    BY <1>5 DEF EndAs, Deployed, Gathered, HealthyIsDeployed, SuccessIsDeployed
  <1>6. CASE sla_expires \/ crash
    BY <1>5, <1>6 DEF sla_expires, crash
  <1>7. CASE tick
    BY <1>7, OtherStepsKeepDeployed DEF tick
  <1>8. ASSUME NEW n \in Nodes, Node(n) PROVE Deployed'
    BY <1>5, <1>8, NodeKeepsDeployed, OtherStepsKeepDeployed
       DEF Node, call_tool, agent, node_raises
  <1>9. ASSUME NEW c \in in_flight, Return(c) PROVE Deployed'
    BY <1>9, ReturnKeepsDeployed, RaiseKeepsDeployed DEF Return
  <1>10. ASSUME NEW r \in Requests, check_decision(r) \/ set_decision(r) PROVE Deployed'
    BY <1>10, OtherStepsKeepDeployed DEF check_decision, set_decision, agent
  <1>11. CASE UNCHANGED vars
    BY <1>11, OtherStepsKeepDeployed DEF vars
  <1> QED BY <1>1, <1>2, <1>3, <1>4, <1>6, <1>7, <1>8, <1>9, <1>10, <1>11 DEF Next

\* An attempt that succeeds has created its own deployment in an application and a group
\* that exist and has filled in its whole report, for any number of services and
\* attempts, whatever the tool calls before deploy_application did and whichever threads
\* of earlier attempts land meanwhile (deploy_application, BaseAgent.verify).
THEOREM SuccessHolds == Spec => []SuccessIsDeployed
  <1>1. Init => CloudInv /\ Deployed
    BY DEF Init, CloudInv, DeploymentsHaveGroups, DeploysItsOwn, DeploymentOf, Deployed,
           Gathered, HealthyIsDeployed, SuccessIsDeployed
  <1>2. IInv /\ CloudInv /\ Deployed /\ [Next]_vars => CloudInv' /\ Deployed'
    BY CloudHolds, DeployedHolds
  <1>3. Deployed => SuccessIsDeployed
    BY DEF Deployed
  <1> QED BY <1>1, <1>2, <1>3, Invariance, PTL DEF Spec

=============================================================================
