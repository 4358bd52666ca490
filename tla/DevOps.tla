------------------------------- MODULE DevOps -------------------------------
(***************************************************************************)
(* agents/devops: the attempts of the DevOps agent at one run, and the     *)
(* founder's decision about its AWS spend, which api/v1/devops_approvals   *)
(* writes into a Redis key that the graph's spend gate polls.              *)
(*                                                                         *)
(* Nodes of a superstep run at the same time.  A tool call runs in a       *)
(* thread (asyncio.to_thread): when the SLA, or a node beside it that      *)
(* raises, cancels the attempt, the thread goes on and its effect lands    *)
(* later, maybe under the next attempt.                                    *)
(*                                                                         *)
(* A unit of time is the greatest common divisor of the SLA, the gate's    *)
(* timeout and the key's expiry: 300 seconds.                              *)
(***************************************************************************)
EXTENDS Naturals, Sequences

CONSTANTS
    MaxServices,   \* bound on the services the coder hands over
    Requests,      \* requests to the approval endpoint
    MaxAttempts,   \* bounds the attempts at the run, which the code does not
    SLA,           \* SLA_SECONDS
    GateTimeout,   \* devops_hitl_timeout_seconds
    DecisionTTL    \* the key's expiry: GateTimeout and a buffer

ASSUME DevOpsAssumption ==
    /\ MaxServices \in Nat
    /\ MaxAttempts \in Nat \ {0}
    /\ SLA \in Nat \ {0}
    /\ GateTimeout \in Nat \ {0}
    /\ DecisionTTL \in Nat \ {0}

VARIABLES
    services,    \* how many services this run has
    spend,       \* the estimated cost against devops_spend_gate_cap_usd, or pre-approved
    attempt,     \* the number of the current attempt
    status,      \* of the current attempt
    elapsed,     \* its time so far
    next,        \* the nodes of its superstep, of which
    done,        \* these have returned
    made,        \* the tool calls each node has behind it
    st,          \* DevOpsState
    in_flight,   \* tool calls in their threads
    cloud,       \* what has been created at AWS
    key,         \* the decision in Redis
    ttl,         \* and its time to live
    request,     \* of each request its next call and its decision
    decided,     \* history: every decision that was written
    heard_by     \* history: the attempt whose gate was polling when key was written

vars == <<services, spend, attempt, status, elapsed, next, done, made, st,
          in_flight, cloud, key, ttl, request, decided, heard_by>>

inputs == <<services, spend>>
agent == <<attempt, status, elapsed, next, done, made, st>>
founder == <<key, ttl, request, decided, heard_by>>

-----------------------------------------------------------------------------
(* The graph *)

\* attach_foundation_network, provision_compute and provision_data_layer call Terraform
\* for validation only and go on whatever it says: they are nodes without tool calls.
Edges == [
    ingest_input              |-> {"hitl_spend_gate"},
    attach_foundation_network |-> {"provision_compute", "provision_data_layer"},
    provision_compute         |-> {"infra_join"},
    provision_data_layer      |-> {"infra_join"},
    infra_join                |-> {"provision_secrets"},
    provision_secrets         |-> {"build_task_defs", "configure_codedeploy"},
    build_task_defs           |-> {"deploy_join"},
    configure_codedeploy      |-> {"deploy_join"},
    deploy_join               |-> {"deploy_application"},
    configure_dns_ssl         |-> {"configure_monitoring", "configure_cicd"},
    configure_monitoring      |-> {"postdeploy_join"},
    configure_cicd            |-> {"postdeploy_join"},
    postdeploy_join           |-> {"smoke_test"},
    render_deploy_report      |-> {},
    error_handler             |-> {}]

Nodes == DOMAIN Edges \cup {"hitl_spend_gate", "deploy_application", "smoke_test"}

\* Nodes that ask the LLM: a failed call, or an answer that cannot be parsed after one
\* correction, raises.
LLMNodes == {"build_task_defs", "configure_monitoring", "configure_cicd", "render_deploy_report"}

Spends == {"pre_approved", "within_cap", "above_cap"}

Unstarted ==
    [approval_status |-> "pending", task_defs |-> 0, deploy_status |-> "pending",
     live_url |-> FALSE, smoke_tests_passed |-> FALSE, outputs |-> {}]

\* The fields of DevOpsState that nodes fill in and others, or the report, read.
Outputs == {"vpc_config", "ecs_cluster", "data_layer", "secrets", "codedeploy_app",
            "monitoring_config", "cicd_config", "deploy_report_markdown"}

Unasked == [pc |-> "idle", decision |-> "none"]
Answered == [pc |-> "answered", decision |-> "none"]

TypeOK ==
    /\ services \in 0..MaxServices
    /\ spend \in Spends
    /\ attempt \in 0..MaxAttempts
    /\ status \in {"idle", "running", "succeeded", "failed"}
    /\ elapsed \in 0..SLA
    /\ next \subseteq Nodes /\ done \subseteq next
    /\ made \in [Nodes -> Nat]
    /\ st \in [approval_status : {"pending", "approved", "rejected", "timed_out"},
               task_defs : {0, services}, deploy_status : {"pending", "healthy", "failed"},
               live_url : BOOLEAN, smoke_tests_passed : BOOLEAN, outputs : SUBSET Outputs]
    /\ \A c \in in_flight : c.attempt \in 1..attempt /\ c.node \in Nodes
    /\ key \in {"none", "approved", "rejected"}
    /\ ttl \in 0..DecisionTTL /\ (ttl = 0 <=> key = "none")
    /\ request \in [Requests -> {Unasked, Answered} \cup
                       [pc : {"checked"}, decision : {"approved", "rejected"}]]
    /\ decided \subseteq {"approved", "rejected"}

route_after_hitl(s) ==
    IF s.approval_status = "approved" THEN {"attach_foundation_network"} ELSE {"error_handler"}

route_after_deploy(s) ==
    IF s.deploy_status = "healthy" THEN {"configure_dns_ssl"} ELSE {"error_handler"}

route_after_smoke(s) ==
    IF s.smoke_tests_passed THEN {"render_deploy_report"} ELSE {"error_handler"}

Successors(n, s) ==
    CASE n = "hitl_spend_gate"    -> route_after_hitl(s)
      [] n = "deploy_application" -> route_after_deploy(s)
      [] n = "smoke_test"         -> route_after_smoke(s)
      [] OTHER                    -> Edges[n]

-----------------------------------------------------------------------------
(* Tool calls *)

Resource(kind, of) == [kind |-> kind, of |-> of]

secrets_manager_create(i) == Resource("secret", i)
codedeploy_create_application == Resource("application", 0)
codedeploy_create_deployment_group == Resource("deployment_group", 0)
codedeploy_create_deployment(k) == Resource("deployment", k)
acm_request_certificate(k) == Resource("certificate", k)

\* What a node calls for, one after the other.  provision_secrets creates what the
\* services refer to, one secret for each in this model; configure_dns_ssl asks for a
\* certificate, and never for a record, as no field of the state names a hosted zone;
\* configure_cicd's upsert is never made, as none names a repository.
CallsOf(n) ==
    CASE n = "provision_secrets" ->
            [i \in 1..services |-> secrets_manager_create(i)]
      [] n = "configure_codedeploy" ->
            <<codedeploy_create_application, codedeploy_create_deployment_group>>
      [] n = "deploy_application" ->
            IF st.task_defs = 0 \/ "codedeploy_app" \notin st.outputs
            THEN <<>> ELSE <<codedeploy_create_deployment(attempt)>>
      [] n = "configure_dns_ssl" -> <<acm_request_certificate(attempt)>>
      [] OTHER -> <<>>

Busy(n) == \E c \in in_flight : c.attempt = attempt /\ c.node = n

Running(n) == status = "running" /\ n \in next \ done

call_tool(n) ==
    /\ Running(n)
    /\ made[n] < Len(CallsOf(n))
    /\ ~Busy(n)
    /\ in_flight' = in_flight \cup
           {[attempt |-> attempt, node |-> n, makes |-> CallsOf(n)[made[n] + 1]]}
    /\ UNCHANGED <<inputs, agent, cloud, founder>>

\* Creating a group needs its application, a deployment both; creating again what
\* exists is no error.
Possible(r) ==
    CASE r.kind = "deployment_group" -> codedeploy_create_application \in cloud
      [] r.kind = "deployment" ->
            {codedeploy_create_application, codedeploy_create_deployment_group} \subseteq cloud
      [] OTHER -> TRUE

Awaited(c) == c.attempt = attempt /\ Running(c.node)

tool_returns(c) ==
    /\ c \in in_flight
    /\ Possible(c.makes)
    /\ cloud' = cloud \cup {c.makes}
    /\ in_flight' = in_flight \ {c}
    /\ made' = IF Awaited(c) THEN [made EXCEPT ![c.node] = @ + 1] ELSE made
    /\ UNCHANGED <<inputs, attempt, status, elapsed, next, done, st, founder>>

\* Mutant: deploy_application takes no notice of the error, as the nodes before it.
tool_raises_unnoticed(c) ==
    /\ c \in in_flight
    /\ cloud' \in {cloud} \cup (IF Possible(c.makes) THEN {cloud \cup {c.makes}} ELSE {})
    /\ in_flight' = in_flight \ {c}
    /\ made' = IF Awaited(c) THEN [made EXCEPT ![c.node] = Len(CallsOf(c.node))] ELSE made
    /\ UNCHANGED <<inputs, attempt, status, elapsed, next, done, st, founder>>

\* The call may have had its effect.  provision_secrets goes on with the next secret;
\* the other nodes end with their first error, which is fatal to a deployment only.
tool_raises(c) ==
    /\ c \in in_flight
    /\ cloud' \in {cloud} \cup (IF Possible(c.makes) THEN {cloud \cup {c.makes}} ELSE {})
    /\ in_flight' = in_flight \ {c}
    /\ IF Awaited(c)
       THEN /\ made' = [made EXCEPT ![c.node] =
                            IF c.node = "provision_secrets" THEN @ + 1 ELSE Len(CallsOf(c.node))]
            /\ st' = IF c.node = "deploy_application"
                     THEN [st EXCEPT !.deploy_status = "failed"] ELSE st
       ELSE UNCHANGED <<made, st>>
    /\ UNCHANGED <<inputs, attempt, status, elapsed, next, done, founder>>

-----------------------------------------------------------------------------
(* Nodes *)

Approve(a) == st' = [st EXCEPT !.approval_status = a]

\* Mutant: a gate that cannot read Redis lets the run pass.
hitl_spend_gate_open ==
    /\ Running("hitl_spend_gate")
    /\ \/ spend # "above_cap" /\ Approve("approved")
       \/ spend = "above_cap" /\ key # "none" /\ Approve(key)
       \/ spend = "above_cap" /\ Approve("approved")
    /\ done' = {"hitl_spend_gate"}
    /\ UNCHANGED <<inputs, attempt, status, elapsed, next, made, in_flight, cloud, founder>>

\* At or under the cap the gate approves by itself; above it polls for a decision, and
\* gives up when Redis fails or the timeout is over.
hitl_spend_gate ==
    /\ Running("hitl_spend_gate")
    /\ \/ spend # "above_cap" /\ Approve("approved")
       \/ /\ spend = "above_cap"
          /\ \/ key # "none" /\ Approve(key)
             \/ key = "none" /\ elapsed >= GateTimeout /\ Approve("timed_out")
             \/ Approve("rejected")
    /\ done' = {"hitl_spend_gate"}
    /\ UNCHANGED <<inputs, attempt, status, elapsed, next, made, in_flight, cloud, founder>>

With(s, output) == [s EXCEPT !.outputs = @ \cup {output}]

attach_foundation_network(s) == With(s, "vpc_config")
provision_compute(s) == With(s, "ecs_cluster")
provision_data_layer(s) == With(s, "data_layer")
provision_secrets(s) == With(s, "secrets")
build_task_defs(s) == [s EXCEPT !.task_defs = services]
configure_codedeploy(s) == With(s, "codedeploy_app")

\* The service is healthy as soon as the deployment is created.
deploy_application(s) ==
    [s EXCEPT !.deploy_status = IF s.task_defs = 0 \/ @ = "failed" THEN "failed" ELSE "healthy"]

configure_dns_ssl(s) == [s EXCEPT !.live_url = TRUE]
configure_monitoring(s) == With(s, "monitoring_config")
configure_cicd(s) == With(s, "cicd_config")

\* Every service is asked at the URL; no service, or no URL, is no success.
smoke_test(s) ==
    {[s EXCEPT !.smoke_tests_passed = all_passed] :
        all_passed \in IF s.live_url /\ services # 0 THEN BOOLEAN ELSE {FALSE}}

render_deploy_report(s) == With(s, "deploy_report_markdown")
error_handler(s) == [s EXCEPT !.deploy_status = "failed"]

NodeResults(n) ==
    CASE n = "attach_foundation_network" -> {attach_foundation_network(st)}
      [] n = "provision_compute"         -> {provision_compute(st)}
      [] n = "provision_data_layer"      -> {provision_data_layer(st)}
      [] n = "provision_secrets"         -> {provision_secrets(st)}
      [] n = "build_task_defs"           -> {build_task_defs(st)}
      [] n = "configure_codedeploy"      -> {configure_codedeploy(st)}
      [] n = "deploy_application"        -> {deploy_application(st)}
      [] n = "configure_dns_ssl"         -> {configure_dns_ssl(st)}
      [] n = "configure_monitoring"      -> {configure_monitoring(st)}
      [] n = "configure_cicd"            -> {configure_cicd(st)}
      [] n = "smoke_test"                -> smoke_test(st)
      [] n = "render_deploy_report"      -> {render_deploy_report(st)}
      [] n = "error_handler"             -> {error_handler(st)}
      [] OTHER                           -> {st}

node_returns(n) ==
    /\ Running(n)
    /\ n # "hitl_spend_gate"
    /\ ~Busy(n) /\ made[n] = Len(CallsOf(n))
    /\ st' \in NodeResults(n)
    /\ done' = done \cup {n}
    /\ UNCHANGED <<inputs, attempt, status, elapsed, next, made, in_flight, cloud, founder>>

-----------------------------------------------------------------------------
(* BaseAgent.run *)

\* run_pillar_5 starts an attempt; another one follows when the run is resumed after a
\* crash, or by a driver that still had the checkpoint from before.  Nothing in the code
\* counts the attempts: MaxAttempts bounds the model.
start ==
    /\ status \in {"idle", "failed"}
    /\ attempt < MaxAttempts
    /\ attempt' = attempt + 1
    /\ status' = "running"
    /\ elapsed' = 0
    /\ next' = {"ingest_input"}
    /\ done' = {}
    /\ made' = [n \in Nodes |-> 0]
    /\ st' = Unstarted
    /\ UNCHANGED <<inputs, in_flight, cloud, founder>>

superstep ==
    /\ status = "running" /\ done = next
    /\ UNION {Successors(n, st) : n \in next} # {}
    /\ next' = UNION {Successors(n, st) : n \in next}
    /\ done' = {}
    /\ made' = [n \in Nodes |-> 0]
    /\ UNCHANGED <<inputs, attempt, status, elapsed, st, in_flight, cloud, founder>>

Verified(s) == s.deploy_status = "healthy" /\ s.live_url /\ s.smoke_tests_passed

\* What a failed attempt has computed is lost with it.
EndAs(outcome) ==
    /\ status' = outcome
    /\ next' = {}
    /\ done' = {}
    /\ elapsed' = 0
    /\ made' = [n \in Nodes |-> 0]
    /\ st' = IF outcome = "succeeded" THEN st ELSE Unstarted
    /\ UNCHANGED <<inputs, attempt, cloud, founder>>

verify ==
    /\ status = "running" /\ done = next
    /\ UNION {Successors(n, st) : n \in next} = {}
    /\ EndAs(IF Verified(st) THEN "succeeded" ELSE "failed")
    /\ UNCHANGED in_flight

node_raises(n) ==
    /\ n \in LLMNodes
    /\ Running(n)
    /\ EndAs("failed")
    /\ UNCHANGED in_flight

\* Mutant: the tool calls block the event loop, which fires the timeout when they return.
sla_expires_unblocked ==
    /\ status = "running"
    /\ elapsed >= SLA
    /\ \A n \in Nodes : ~Busy(n)
    /\ EndAs("failed")
    /\ UNCHANGED in_flight

\* asyncio.timeout cancels the graph and waits for no thread.
sla_expires ==
    /\ status = "running"
    /\ elapsed >= SLA
    /\ EndAs("failed")
    /\ UNCHANGED in_flight

\* The process dies, and with it the threads; what they had sent may still arrive.
crash ==
    /\ status = "running"
    /\ EndAs("failed")
    /\ in_flight' \in SUBSET in_flight

\* asyncio.timeout fires on time: no attempt goes on past its SLA.
tick ==
    /\ status = "running" => elapsed < SLA
    /\ status = "running" \/ key # "none"
    /\ elapsed' = IF status = "running" THEN elapsed + 1 ELSE 0
    /\ ttl' = IF key = "none" THEN 0 ELSE ttl - 1
    /\ key' = IF ttl' = 0 THEN "none" ELSE key
    /\ UNCHANGED <<inputs, attempt, status, next, done, made, st, in_flight, cloud,
                   request, decided, heard_by>>

-----------------------------------------------------------------------------
(* decide_devops_spend: the check and the write are two calls of Redis.  A request *)
(* that finds a decision is refused (409).  The founder is asked above the cap     *)
(* only; nobody would read another decision.                                      *)

check_decision(r) ==
    /\ request[r].pc = "idle"
    /\ spend = "above_cap"
    /\ key = "none"
    /\ \E d \in {"approved", "rejected"} :
           request' = [request EXCEPT ![r] = [pc |-> "checked", decision |-> d]]
    /\ UNCHANGED <<inputs, agent, in_flight, cloud, key, ttl, decided, heard_by>>

\* Mutants: no expiry; only the buffer is left of it.
set_decision_for_ever(r) ==
    /\ request[r].pc = "checked"
    /\ key' = request[r].decision
    /\ ttl' = 0
    /\ decided' = decided \cup {key'}
    /\ heard_by' = IF Running("hitl_spend_gate") THEN attempt ELSE 0
    /\ request' = [request EXCEPT ![r] = Answered]
    /\ UNCHANGED <<inputs, agent, in_flight, cloud>>

set_decision_short(r) ==
    /\ request[r].pc = "checked"
    /\ key' = request[r].decision
    /\ ttl' = DecisionTTL - GateTimeout
    /\ decided' = decided \cup {key'}
    /\ heard_by' = IF Running("hitl_spend_gate") THEN attempt ELSE 0
    /\ request' = [request EXCEPT ![r] = Answered]
    /\ UNCHANGED <<inputs, agent, in_flight, cloud>>

set_decision(r) ==
    /\ request[r].pc = "checked"
    /\ key' = request[r].decision
    /\ ttl' = DecisionTTL
    /\ decided' = decided \cup {key'}
    /\ heard_by' = IF Running("hitl_spend_gate") THEN attempt ELSE 0
    /\ request' = [request EXCEPT ![r] = Answered]
    /\ UNCHANGED <<inputs, agent, in_flight, cloud>>

-----------------------------------------------------------------------------

Init ==
    /\ services \in 0..MaxServices
    /\ spend \in Spends
    /\ attempt = 0
    /\ status = "idle"
    /\ elapsed = 0
    /\ next = {} /\ done = {}
    /\ made = [n \in Nodes |-> 0]
    /\ st = Unstarted
    /\ in_flight = {}
    /\ cloud = {}
    /\ key = "none" /\ ttl = 0
    /\ request = [r \in Requests |-> Unasked]
    /\ decided = {}
    /\ heard_by = 0

Node(n) == call_tool(n) \/ node_returns(n) \/ node_raises(n)
Return(c) == tool_returns(c) \/ tool_raises(c)

Next ==
    \/ start \/ superstep \/ verify \/ sla_expires \/ crash \/ tick \/ hitl_spend_gate
    \/ \E n \in Nodes : Node(n)
    \/ \E c \in in_flight : Return(c)
    \/ \E r \in Requests : check_decision(r) \/ set_decision(r)

Spec == Init /\ [][Next]_vars

\* Time passes, and the event loop runs what is ready.  Nobody has to decide, Redis need
\* not answer, and a tool call need never come back from its thread.
FairSpec == Spec /\ WF_vars(superstep \/ verify \/ sla_expires) /\ WF_vars(tick)

-----------------------------------------------------------------------------
(* Properties *)

\* Nothing that costs money is created unless the estimate is within the cap or the
\* founder approved: not by a gate that cannot read the decision or gives up waiting,
\* not by a thread that outlives its attempt, not by an attempt that comes later
\* (hitl_spend_gate, route_after_hitl).
SpendIsApproved == cloud # {} /\ spend = "above_cap" => "approved" \in decided

\* An attempt that succeeds has created its own deployment, in an application and a
\* group that exist, and left nothing of its report out, though every node before
\* deploy_application passes over failed tool calls and half of the nodes run beside
\* others (configure_codedeploy: "deploy_application will fail loudly").
SuccessIsDeployed ==
    status = "succeeded" =>
        /\ {codedeploy_create_application, codedeploy_create_deployment_group,
            codedeploy_create_deployment(attempt)} \subseteq cloud
        /\ st.outputs = Outputs

\* A decision written while a gate polls for it stays readable for as long as that
\* gate may poll (decide_devops_spend: "the key disappears after the subgraph has had
\* a chance to read it").
DecisionOutlivesItsGate ==
    [][key # "none" /\ key' = "none" =>
           ~(Running("hitl_spend_gate") /\ heard_by = attempt)]_vars

\* Every attempt comes to an end, with a gate that nobody answers and with tool calls
\* that hang at AWS: they are in threads, and the SLA waits for none of them.
AttemptEnds == status = "running" ~> status # "running"

=============================================================================
