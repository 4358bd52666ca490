# AutoFounder: TLA+ models, checks and proofs

AutoFounder takes a founder's idea through seven pillars (strategy, product plan,
architecture, code and review, deployment, marketing, growth). A LangGraph state graph
runs the pillars and stops before four gates, where a human approves or rejects; agents do
the work of the pillars; queues, a gates table and a checkpointer connect the parts. The
modules beside this file model the backend's control logic (`src/backend/app`), TLC checks
them on small instances, and TLAPS proves the main invariants for every value of the
constants. Paths below are relative to `src/backend/app/` unless they start with `docs/`.

## 1. Inventory

| Component | State | Operations | Hard behaviour |
|---|---|---|---|
| Run graph: `orchestrator/graph.py`, `state.py`, `nodes.py`, `edges.py` | `RunState`: outputs of the pillars, `gate_decision`, `retry_count`, `active_gate_id`, `status` | 13 nodes, 14 edges, `interrupt_before` the gates | a decision stays in the state after its gate; rejections loop |
| Engine: `orchestrator/engine.py` | the thread's checkpoint, `runs.status`, `completed_at` | `create_run`, `resume`, `get_run_state` | status derived from a snapshot older than the write; resume after the end, or after a crash in the middle of a pillar |
| Gate manager: `orchestrator/hitl/` | the `gates` table, `gate.required` events | `check_and_create_gate`, `check_gate_timeouts` | read, insert, update and announce in separate awaits; no uniqueness of pending rows |
| HTTP API: `api/v1/gates.py`, `ideas.py`, `runs.py` | rows of `gates` and `runs` | `submit_idea`, `decide_gate`, `cancel_run` | check-then-act without a lock; commit, then resume; rows deleted under tasks that use them |
| Events: `orchestrator/events/` | the `run.created` queue (SQS, or in memory) | publish, consume | redelivery, loss with the process |
| Dual checkpointer: `orchestrator/checkpointer.py` | PostgreSQL rows, one Redis key a run | `aget_tuple`, `aput` | two stores without a transaction, cache read first, agents' own graphs on the run's rows and key |
| Pillar worker: `orchestrator/worker.py` | one SQS queue a pillar, `step_events`, `runs.status` | poll, process, back off, give up | leases that end, retries, swallowed errors, crashes |
| Agent base: `agents/base.py` | a breaker for the model and one for the tools | `run`, `_call_llm`, `_call_tool` | calls in parallel share a breaker; SLA; cancelled calls |
| Guardrails: `guardrails/` | a rate counter a tenant and minute, lineage records | the six stages around a call | the verdict is recorded across an await; the store fails |
| DevOps: `agents/devops/`, `api/v1/devops_approvals.py` | `DevOpsState`, a decision in Redis, resources at AWS | 17 nodes, tool calls in threads, the approval endpoint | threads outlive their attempt; a decision expires; failures passed over |
| Reviewer: `agents/reviewer/` | `ReviewerState`, Docker images on the host | 14 nodes, `verify` | gates in parallel, crashed gates, heal loop against the recursion limit |
| Architect, strategy, marketing: `agents/*/graph.py` | one state a run | graphs with parallel branches and loops | updates of parallel nodes merged; a loop that redoes a part of the work |
| Research, planner, coder, LLMOps: `agents/*/agent.py` | one output a run | stages, then `verify` | a retry inside `verify`; fallbacks; order of the input |
| Tool registry, LLM router | tables | lookup, choice of a provider | sequential |
| Data access, prompts, RAG, evaluation | rows, templates | wrappers and transformations | none of their own |
| Front ends, VS Code extension, Terraform | - | - | clients and configuration |

How they interact. `POST /ideas` commits a `runs` row and publishes `run.created`; the
consumer starts the graph (`ainvoke` with an input), which writes a checkpoint after every
superstep and stops before a gate. The consumer then calls `check_and_create_gate`: a
pending row, `active_gate_id` in the thread, a `gate.required` event. `POST
/runs/{id}/gates/{gate}` commits the decision and calls `resume`, which injects it into the
thread (`aupdate_state`), continues the graph (`ainvoke(None)`), creates the next gate and
writes `runs.status`. The timeout sweep and the pillar workers call the same `resume`. These
tasks share no memory, only the database, Redis and the queues; so it makes no difference
to the models whether they run in one process or in several (ECS runs two). Inside an agent
the nodes of a superstep run at the same time; every call they make to a model or a tool
goes through the guardrail pipeline and then through the agent's breaker.

What makes the components correct: no pillar starts without its signature, decisions reach
the gate they are about, a waiting run can be answered, pivots are bounded, a cancelled
run stays cancelled, the cache never knows more than the store, tasks end and are not
given up early, nothing costly is created without approval and nothing is reported as
deployed that is not, no call escapes its audit, the breaker opens for a real streak of
failures and closes when the provider is back, and what an agent returns belongs together:
a design to its stack, a score to its findings, a scheduled text to the audit that let it
through.

## 2. Modules

| Module | Models | Composes |
|---|---|---|
| `RunGraph` | nodes and edges as operators, LangGraph's checkpoint | - |
| `GatedPipeline` | abstract: what the pipeline promises a founder | - |
| `RunEngine` | one run, one caller at a time, crashes | `RunGraph`; implements `GatedPipeline` |
| `Orchestrator`, `MCOrchestrator` | API, consumer, gate manager, sweep, worker's resume, cancellation, await by await | `RunGraph`; implements `GatedPipeline` |
| `DualCheckpointer` | two stores, overlapping users of a run, the graphs of its agents inside a pillar | - |
| `PillarWorker` | one task message, its queue, the polling loops | - |
| `CircuitBreaker` | one breaker and the calls that share it | - |
| `GuardedCalls` | the calls of an agent through the guardrail pipeline | `CircuitBreaker`, which it implements |
| `DevOps` | attempts of the DevOps agent, threads, AWS, the approval endpoint | - |
| `Reviewer` | the reviewer's graph, images, `BaseAgent.run` around it | - |
| `AgentGraph` | one run of an agent's graph: supersteps, parallel nodes, the recursion limit | - |
| `Architect`, `Strategist`, `Marketing`, `Research`, `Planner`, `Coder`, `LLMOps` | the nodes, edges and `verify` of one agent each | `AgentGraph` |
| `Agents`, `MCAgents` | a run of any one of these agents | the seven |
| `RunGraphProofs` | lemmas about nodes, edges and checkpoints | `RunGraph` |
| `RunEngineProofs`, `OrchestratorProofs`, `DualCheckpointerProofs`, `PillarWorkerProofs`, `ReviewerProofs`, `DevOpsProofs` | theorems | the module they are named after |
| `AgentProofs` | theorems | `CircuitBreaker`, `GuardedCalls` and `Agents` |

Definitions keep the names of the code they stand for, `PROJECT.json` gives the lines. The
operators called "Mutant" are plausible bugs; each is put in place of the definition it
varies, and the property it is listed with must then fail.

### RunGraph and RunEngine

A node is a function from a `RunState` to the set of states it may return, an edge a
function to the next node. Kept are the fields something is decided on; an output is `none`,
`stub`, `real` or `costly` (over the spend threshold). A superstep of LangGraph is one node
and the checkpoint after it; `next_of` evaluates the edge of the last node on the stored
state, which is what `aget_state().next` and a continued `ainvoke(None)` do, so a decision
injected late re-routes an ended run. `RunEngine` lets anybody call `resume` at any time the
graph is idle, with any decision and pivot text, and loses the node under way in a crash.

The build at hand delivers stubs for pillars 2 to 4, so pillar 5 is a stub too and the
infra-spend gate is never reached (`SlotKinds = {"stub"}`). `run_pillar_5`, its cost edge
and `tests/integration/orchestrator/test_pillar_5_node.py` accept real outputs, and
passing runs use `{"stub", "real"}` so that this gate is covered; the violation run uses
today's value. `IdeaCreate` asks for ten characters and not for a non-blank text, so a
blank idea does reach `validate_input`.

### Orchestrator

Every action is the code between two awaits that touch shared state. What a task read
before an await stays in its record (`snapshot`, `memory`, `row`, `expired`) and is used
afterwards. `aupdate_state` is a read and then a write; `ainvoke` works on its own copy
(`memory`) and writes checkpoints over whatever the thread holds; `decide_gate` checks the
row (`decide_gate`) and commits it (`commit_decision`) without a lock; the sweep takes its
list once. `select_gate` includes the `MultipleResultsFound` of `scalar_one_or_none`.
`fail` is an exception of a driver in any task, `crash` the end of all tasks.
`disturbed` is history and changes no step: it is set when two calls for the run are under
way at once, when a redelivered message starts over a thread, and when a worker approves
without a gate. Nothing in the code keeps these from happening; several properties say what
holds until then.

`cancel_run` deletes the run and, through the cascade, its gates (both are then "deleted"
here, so that a task can still name the row it holds). The thread, the message and the tasks
stay: an `INSERT` of a gate breaks its foreign key, a commit of a row that was read raises
(`stale_row`, SQLAlchemy's `StaleDataError`), the `UPDATE` of the status finds nothing.

`resume` is called directly by `decide_gate`. With a gate-decisions queue configured, the
API publishes `gate.decided` instead; neither the mock producer, which forwards
`run.created` only, nor the EventBridge rule in Terraform delivers that event to its
consumer, so that consumer is not modelled. `check_gate_timeouts` is modelled though only
tests call it today.

### DualCheckpointer

A loop is a graph at work: of each task the run's own graph and, inside a pillar, the
graph of its agent. Strategy and DevOps invoke theirs with the run's id for `thread_id`
and without `checkpoint_ns`, so the two loops share the rows of PostgreSQL and the Redis
key. Each reads on entry (`aget_tuple_hot` and `aget_tuple_cold` are the two paths) and
then puts after every superstep: `aput_insert` takes its `created_at`, `aput_commit` makes
it visible, `aput_redis` mirrors it or fails silently. LangGraph runs the puts in the
background, so that the agent's graph may start while the run's last put is under way.
`owes` says that an agent's graph has started and the run's next checkpoint has not been
committed; `disturbed` and `abandoned` are history, for the properties about undisturbed
reads and about what a crash leaves.

### PillarWorker

`message` is where the task is, `receives` the count of the queue (or of the message itself
on the mock queue), `loop` what each polling loop does next. The lease may end under a
loop at work. `give_up` is followed by `drop`, `fail_run` and `announce`, each of which may
fail. The gRPC stream and the inserts of its events are one step up to their commit, as a
transaction makes them.

### CircuitBreaker and GuardedCalls

A call is admitted, awaits, and has its outcome in whatever state the others left the
breaker. Time is the one fact the code asks for: has `reset_timeout` passed since the last
failure? The counter stops at the threshold; the code counts on and compares with `>=`.
`cancel` is the research fan-out's `asyncio.timeout`, whose `CancelledError` passes by the
breaker's `except Exception`. A call admitted before the provider recovered may still fail,
or succeed.

`GuardedCalls` puts the pipeline in front of it. `guard` is the stage each call is at and
the stage's verdict; between the verdict and the next stage `record` writes the lineage,
which is where other calls go on. Only the policy stage looks at what became of its record
(`_audit_block`). The tool side counts every call against the minute's limit, also the
refused ones. What a check finds is nondeterministic; what is kept is what follows from a
verdict. The output guard and the monitoring stage come after the call and block nothing.
`recorded` and `allowed` are history.

### DevOps

One attempt is one `BaseAgent.run`; another follows when `run_pillar_5` is entered again.
`next` and `done` are the superstep's nodes and those that have returned. A tool call goes
to a thread (`call_tool`), comes back or raises, and may do so when its attempt is over:
`in_flight` keeps the attempt and the node that asked. `cloud` is what exists at AWS; a tool
that raised may have had its effect. `hitl_spend_gate` polls the key that
`decide_devops_spend` checks (`check_decision`) and sets (`set_decision`) in two calls of
Redis. Time is counted in units of 300 s, the greatest common divisor of the SLA, the
gate's timeout and the expiry. Names of resources are those of the run, hence the same in
every attempt; deployments and certificates are new ones each time. `configure_dns_ssl`
never writes a record and `configure_cicd` never a file, since no field of `DevOpsState`
names a zone or a repository.

### Reviewer

One action a superstep; the five gates are one superstep and their results are merged at
its end. A gate's result is what triage distinguishes; every combination is possible in
every cycle, since a patch may break what worked. A gate that crashed through `with_retry`
adds to `error_count` and leaves its old field. `images` are Docker images named by cycle.
`verify` is the check at the end of `BaseAgent.run`; `give_up` stands for the SLA and for
nodes that raise. `tested` is history. The model assumes that `docker rmi` succeeds, since
`teardown` ignores its failures and nothing in the code retries it.

### The other agents

`AgentGraph` is parameterised by operators: the nodes that follow, what a node makes of
the state, whether it may raise. A node has read the state its superstep began with
(`read`) and its update is merged into `st`, in any order among the nodes beside it. The
research agent and the three staged ones have no LangGraph; their awaits are supersteps of
one node, or of the calls that `asyncio.gather` makes. Texts are represented by what the
properties tell apart: in `Architect` the number of the stack a part was made for, in
`Marketing` whether a draft was written again, and apart from each other `APP_ENV` and
whether `REDIS_URL` is set, in `Research` and `Planner` who wrote the content and how it
scores. `LLMOps` computes with numbers: its drift and cost operators are the code's
formulas, with fractions multiplied out, over the traces of `MCAgents`. `abandoned` is the
SLA or the end of the process. `Marketing` models the compiled graph, since
`MarketingAgent.run` does not get to it.

## 3. Runs

| Run | Instance | Checks |
|---|---|---|
| `RunEngine` | 3 ideas (one blank), 3 pivots as in the code, 2 crashes | types, `PivotBound`, `NoPillarWithoutApproval`, refinement of `GatedPipeline`, `RunEnds` |
| `OrchestratorSerial` | one task at a time, 5 decisions, 2 sweeps, one failure, 1 pivot | types, `Settled`, `UndisturbedDecisionReachesItsGate`, refinement, `ApprovalAdvances` |
| `OrchestratorConcurrent` | two tasks at a time, every pair of requests, messages, sweeps and finished steps, also with a cancellation | `OutputsInOrder`, `KeepsPromise`, `CancelIsFinal` |
| `DualCheckpointer` | 2 users with an agent each, 4 checkpoints | `CacheIsDurable`, `LatestIsTheRuns`, `ReadsLatestUndisturbed` |
| `PillarWorker` | 2 loops, 5 attempts, 5 receives (the code's and Terraform's numbers) | types, `GivenUpAfterLastAttempt`, `ApprovalsAreRecorded`, `TaskSettles` |
| `GuardedCalls` | 3 callers, threshold 2, rate limit 2, all settings | types, `LLMCallsAreAudited`, `OpensAfterThreshold`, `RecoversBehindGuard` |
| `DevOps` | 0 or 1 service, 2 requests, 2 attempts, the code's times | types, `SpendIsApproved`, `SuccessIsDeployed`, `DecisionOutlivesItsGate`, `AttemptEnds` |
| `Reviewer` | 2 heal cycles, recursion limit 20 | types, `HealLoopIsBounded`, `VerdictsAreVerified`, `ImagesAreTornDown`, `ReviewEnds` |
| `Agents` | one run of each of seven agents, LangGraph's limit of 25 | types, `DesignIsOfOneStack`, `PackageRestsOnResearch`, `PublishedIsChecked`, `ScoreIsOfTheFindings`, `ReportIsOfTheTraces` |
| `TwoDecisions` | two tasks, 2 requests, stubs | `DecisionReachesItsGate`, violated |
| `UntestedApproval` | the code's 5 cycles and limit 70 | `ApprovedIsTested`, violated |
| `UnscoredPlan` | one run of the planner | `ScoreIsOfThePlan`, violated |

Bounds. The graph's own numbers are used where they fit (`MaxPivotRetries` 3, five
attempts, the DevOps times). `OrchestratorSerial` has enough decisions for all four gates
plus one rejection or non-decision, and `MaxPivotRetries` 1 still has both sides of the
comparison. `Pairs` in `MCOrchestrator` gives two arrivals after the start or a redelivery
with a finished step, with or without a cancellation: the hazards of this code are races
of two, and a third task adds a second race and no new kind. Four checkpoints are one of
the run before a pillar, one of its agent, and two more of whichever task overlaps or
follows. The reviewer's bound is the tight case of the assumption `6 * MaxHealCycles + 8
<= RecursionLimit`, which the code's 5 and 70 satisfy and which is proved sufficient for
every number; with two cycles the gates have a first, a middle and a last pass. Three
callers are one that opens the breaker, one that probes it and one straggler from before;
a rate limit of two is met and exceeded by them. Two attempts of the DevOps agent are one
that leaves threads behind and one that finds what they did; two requests race for the
key. Four traces are the fewest that `_detect_drift` looks at; with one it returns early.
`CHECK_DEADLOCK FALSE` stands where a system may stop: a settled scenario, a finished
task, a returned run. `MaxCrashes`, `MaxFailures`, `MaxCheckpoints`, `Scenarios`,
`MaxServices`, `Requests` and `MaxAttempts` of `DevOps` bound what the environment does;
`MaxAttempts` of `PillarWorker`, `MaxHealCycles`, `RecursionLimit`, `FailureThreshold`,
`RateLimit` and the times are in the code. Nothing is replaced by a cfg but constants.

Fairness. The event loop runs what is runnable, and but for the DevOps agent every await
returns or raises: the calls have timeouts, the retries are counted (`WF` on `SuperStep`,
`Return`, `Handle`, `Work`, `Step`, the outcome of a call). The queue ends a lease and
redrives, `reset_timeout` and the SLA pass, because time does. `RunEnds` also assumes that
somebody goes on answering gates, in any way at all. `RecoversBehindGuard` is about a
provider that has recovered and assumes that calls go on coming through the guard; strong
fairness on `admitted` says that a call which has passed while the breaker admits calls
gets there: in the code no await lies between the last verdict and the breaker.
`AttemptEnds` assumes neither a decision, nor an answer of Redis, nor that a thread comes
back. Crashes, failures and cancellations are never assumed to happen or not to happen
again, but for their bound in `RunEngine` and `Orchestrator`. `Agents` states no fairness;
a run of `AgentGraph` is bounded by its recursion limit.

## 4. Proofs

What is proved holds for every value of the constants that the `ASSUME`s allow. The
assumptions are the types of the constants (of the traces that LLMOps analyses, for
`Agents`), `MaxAttempts >= 1`, `FailureThreshold >= 1`, `RateLimit >= 1`, `RecursionLimit >=
1` and, for the reviewer, `6 * MaxHealCycles + 8 <= RecursionLimit`. In every proof module
an inductive invariant (`IInv`, or the types alone where they carry the property) holds at
first, one lemma for each group of actions says that it is kept, and the theorems follow
with PTL.

* `RunEngineProofs`: `TypeCorrect`, `PivotsAreBounded`, `PillarsNeedApproval`,
  `EngineImplementsGatedPipeline`. `NoPillarWithoutApproval` is not inductive:
  `gate_decision` is left over from gate to gate, so it has to be known where in the graph
  an "approved" can be and whose it is. `InjectedIsSigned` (an approval that is about to
  be used was signed for the gate it is used at), `PassedIsSigned` (gates that lie behind
  were signed) and `OutputsMatchPosition` (which outputs exist at which node) supply that;
  with them the refinement maps every superstep to `Work`, `Pivot` or a stutter and every
  resume to signatures of at most two gates.
* `OrchestratorProofs`: `TypeCorrect`, `OutputsStayInOrder`, `PivotsStayBounded`,
  `CancellationIsFinal`, for any number of handlers, arrivals, failures and crashes. No
  lock orders the handlers, and the approvals can be misapplied (section 5); what does
  survive is that every write of the thread starts from a copy that some handler read, and
  that nodes, a resume's update and the write of `active_gate_id` make good copies of good
  ones (`Copies`: `Positioned` of `RunGraphProofs`, and the bound on pivots). `Sound` says
  what a handler needs for its next call: a copy where it writes one, a row where it names
  one, a decision where it injects one. It survives the steps of the others because rows
  are only added and a thread with a checkpoint keeps one. `DeletedTogether` (the gates
  went with the run) makes the cancellation final: every write that would bring a status
  back finds its row, and thereby the run, gone. The rest is proved for the same handlers
  and arrivals up to the moment when two calls for the run meet (`disturbed`), which
  section 5 shows to be necessary: `DecisionsReachTheirGate`, `RunsSettle` and
  `OrchestratorKeepsPromise`. Until then handlers may come and go, one failing and another
  taking over, and no lock is assumed. Their invariant is `Undisturbed`: without a
  disturbance, `SerialInv` holds. It has a part that holds of the tables and the thread
  (`SerialShared`; in it `OneWaits`: the pending row is of the gate the thread stopped at;
  `PassedIsSigned`: the gate that the thread has just passed has a row that says
  "approved") and `Turn`, which says for each call of a handler that is `Alone` how far
  its changes of graph, rows and run row have got, so that the next call completes them. A
  step that ends undisturbed was taken by a handler that is alone (`StepsAlone`), and a
  handler that starts then finds the tables at rest. A commit that a crash separated from
  its `resume` leaves a decided row and a waiting thread: `OneWaits` allows for it, and
  `Settled` speaks only of runs in which nothing failed. `KeepsPromise` leaves out the
  steps of a cancelled run, since nothing in `GatedPipeline` takes back what was
  delivered.
* `DualCheckpointerProofs`: `TypeCorrect`, `CacheNeverAhead`, `AgentsAreFollowed`,
  `UndisturbedReads`. That the cache is durable needs `MirrorsAreCommitted` (what a loop
  is about to mirror is committed). An agent's checkpoint is followed by one of the run
  because such a one is on its way (`Followed`, `OnItsWay`), with a later `created_at`
  (`Stamps`), from the agent's start until it is committed, in whatever order other tasks
  commit. That an undisturbed read is the latest needs `Undisturbed`: without a
  disturbance one task is at work, and the key holds the greatest checkpoint or nothing,
  except while a pillar is in its agent's graph or a mirror is being written, when the
  run's graph does not read.
* `PillarWorkerProofs`: `TypeCorrect`, `TasksAreNotGivenUpEarly`, `EveryApprovalIsRecorded`.
  `AttemptOf` ties each loop's program counter to the attempt it holds: that attempt is one
  of the receives, it is recorded once the loop is past the commit, and a loop that gives
  up holds an attempt of at least `MaxAttempts`.
* `ReviewerProofs`: `TypeCorrect`, `HealLoopEnds`, `VerdictsPassVerify`, `NoImageIsLeft`.
  `WithinBudget` bounds the supersteps at each node by a function of node and heal
  cycle; `VerdictIsEarned` says at each node what is known of the results (after the join
  the unit tests have one; an approval has neither block nor low coverage); `SandboxIsNamed`
  keeps the one image and its tag together.
* `AgentProofs`, first of the breaker alone: `TypeCorrect`, `BreakerOpensAfterThreshold`.
  `CountsTheStreak` says that a closed breaker counts exactly the failures since the last
  success, below the threshold: this would fail after a recovery unless closing cleared
  the count. Then of the calls: `GuardRefinesBreaker`, `GTypeCorrect`, `CallsAreAudited`,
  `GuardedBreakerOpensAfterThreshold`. Every step is one of the breaker's or leaves it
  alone (`StepsOfTheBreaker`), so that what is proved of `CircuitBreaker` holds behind the
  guard as it stands. The rest is inductive once it is known that LLM calls never meet the
  execution guard, which keeps no call back for its record (`StagesOfLLM`), that verdicts
  belong to stages that give them, and that allowed calls are among the counted ones. At
  last of the agents: `AgentsTypeCorrect`, `DesignsAreOfOneStack`,
  `PackagesRestOnResearch`, `PublishedIsAlwaysChecked`, `ScoresAreOfTheFindings`,
  `ReportsAreOfTheTraces`, for any recursion limit, number of retries and
  traces. The graphs run on the one engine of `AgentGraph`, so the invariant of each agent
  says in which layers a superstep of its graph can be and what its state holds there when
  some of the layer's nodes have returned (`DesignAt`, `CampaignAt`, `ResultsAt`,
  `StrategyPast`, `Detected`, `Totalled`). Its lemmas follow the engine's actions: a node
  of the layer returns, the next layer begins, the run stops, `verify` takes it. For the
  architect every part made since the latest `select_stack` is of that stack, from its own
  node on, and fewer stacks were selected than supersteps begun, which bounds their
  number; for the strategist a run past the join has fewer early failures than
  `MaxRetries`. The sums of LLMOps are folds over sets: what is said of a sum over every
  set (`SumOver...`) follows from its smallest counterexample, which
  `WellFoundedInduction` supplies without an operator for a parameter (`LeastNatural`,
  `OfAllSubsets`). The drift is compared where no agent has two
  traces of one time (`TimesDiffer`, a condition within `ReportIsOfTheTraces`): `sorted`
  keeps those in the order they came, and which half they fall in, hence the drift, may then
  depend on that order. The sums are the report's whatever the times.
* `DevOpsProofs`: `TypesHold`, `SpendHolds`, `SuccessHolds`, `DecisionOutlives`. Above the
  cap and without approval, `Held` says where the graph can be (its first two nodes and
  the error handler) and that no thread of this attempt or of an earlier one is out, since
  a thread that is out lands whatever the state is by then. For `SuccessHolds` the graph
  is cut into layers: as long as nothing has failed, a superstep is exactly one of them
  (`LayersFollow`), and what the nodes before it fill in is there (`Gathered`). So
  `deploy_application` makes its call, and ends healthy only if the deployment exists,
  which cannot be created without its application and group (`DeploymentsHaveGroups`); and
  only the report ends a graph that verifies. `DecisionOutlives` needs `SLA < DecisionTTL`
  (600 and 1200 in the code) and the invariant `Fresh`: of a key that was written while
  the current attempt polled, at least as much of the expiry is left as is needed for what
  is left of the SLA.

Every inductive invariant was a TLC invariant of a run before it was proved; `Undisturbed`
of `OrchestratorProofs` with the 588,122 states of one handler without and 1,138,439 with a
cancellation and the 1,386,887 states of two handlers,
`AgentsInv` with the 457,178 states of the run `Agents`.

Only model-checked: all liveness, since fairness and ENABLED are out of the prover's reach.
Every invariant and every action property that a passing run checks is a theorem. The
refinement `ImplementsGatedPipeline` of `Orchestrator` is checked by the serial run;
`KeepsPromise` is what is proved of it for any number of handlers.
`DualCheckpointer.TypeOK` and `CircuitBreaker.TypeOK` are proved and not among a run's
properties. No module has RECURSIVE operators.

## 5. What fails with two tasks

`OrchestratorConcurrent` checks what is left of the guarantees when calls overlap: outputs
appear in order, every step up to the meeting of the two is one of the promise, and a
cancelled run comes back neither in `runs` nor in `gates`. The following hold until two
calls for the run meet (`disturbed`) and fail after it, by what the code does: a decision
reaches its gate; a decided row keeps its decision (the sweep overwrites one that was made
after it took its list); `runs.status` agrees with the graph (the last writer wins, with a
status from its snapshot); one pending row a gate (two may be inserted, after which
`scalar_one_or_none` raises for good); `active_gate_id` (lost update). Three more are not
stated as properties because nothing protects from them: a crash between the commit of a
decision and `resume` leaves the run waiting at a gate that counts as decided, a
redelivered `run.created` starts the graph over under a run that is under way, and a
cancelled run's graph goes on until it stops at a gate by itself. A failed pillar 1 still
leads to the validation gate, and such a run may end as completed; the graph's edge is
unconditional and modelled so.

## 6. Findings

With a run that shows them:

1. `TwoDecisions`: two overlapping requests on a gate both pass the 409 check of
   `decide_gate`; the second resume answers the next gate.
2. `UntestedApproval`: a unit-test gate that crashes in a later heal cycle leaves the
   result of the cycle before, and patched code is approved on which no test ran.
3. `UnscoredPlan`: `_retry_generation` of the product planner writes into the output it is
   given and returns it, so that the comparison after it guards nothing: a plan that traces
   worse is returned with the coverage of the one it replaced.

Found while modelling, by reading; `PROJECT.json` quotes the lines and the documents:

* Orchestrator: notes of an approval are passed on as `pivot_text` and replace the idea; a
  run that ends with a rejection gets `runs.status` "completed" from `resume`, over the
  "failed" of `decide_gate`; the API accepts "pending" and "timed_out" as decisions; a
  cancelled run's graph goes on; Redis is read first and may hold an older checkpoint than
  PostgreSQL, the "authoritative" store; the strategy and DevOps agents' graphs write
  their checkpoints into the run's own series, so that a crash inside such a pillar, which
  the checkpointer calls safe, leaves the run to be resumed from its agent's checkpoint;
  the fifth failure of a task deletes its message, so that it is not in the dead-letter
  queue.
* Agent base and guardrails: what `verify` returns is read by nobody; a half-open breaker
  admits every call and closes after one success; the cost cap is in the settings and in
  the execution guard and nothing connects them.
* Reviewer: a judge that crashed is no obstacle to an approval.
* DevOps: the gate's timeout of 900 s lies beyond the agent's SLA of 600 s; the check for an
  existing decision and the write of a new one are two calls.
* Architect: the blocking `invoke` keeps the SLA from firing; a rejected design is made
  again until the recursion limit; static prices are marked "live".
* Marketing: the audit of all copy sees four of the six types; a failed audit regenerates
  one of the six; without `REDIS_URL` the launch is approved by itself in every `APP_ENV`,
  which the log calls a "dev fallback"; `run` raises.
* Coder, planner, research, LLMOps: `udal.cache` is used as an attribute and is a method, so
  that nothing is ever cached; the coder's upload calls `object` with arguments it has not.

## 7. Not modelled, and why

Prompts, parsing, templates, the RAG pipeline and the evaluation harness transform data
and share no state. The data access layer is thin; its transactions are atomic commits in
`Orchestrator`. The tool registry and the LLM router are lookups and a loop over providers
within one call. Authentication, metrics and response envelopes do not influence the
control modelled here. In `GuardedCalls` the patterns that the input, instruction and
output guards look for are data: every verdict they could give is there. `_current_run_id`
is kept on the agent and only names the run in lineage records and logs. Front ends,
mobile app, Terraform and migrations are configuration or clients. The agents' caches are
left out because they are never written (section 6), so that every run takes the path
without a hit.

Left out of modules that are modelled: `get_run_state` of the engine, a read for its
caller; the consumer of `gate.decided`, which gets no message; the outcome of `docker
rmi`; the resources that `terraform validate` looks at, since no Terraform is applied.

## 8. Plan

Done, in this order: `RunGraph` with `RunEngine` and its proofs; `Orchestrator`;
`PillarWorker`, `Reviewer`, `CircuitBreaker` and `DualCheckpointer` with their proofs;
cancellation in `Orchestrator`; `DevOps` and `GuardedCalls` with their proofs; the other
agents; `OrchestratorProofs`; `SuccessHolds`; the theorems of `Orchestrator` up to the first
overlap; the invariants of `Agents` as theorems; the agents' graphs in `DualCheckpointer`.

Next:

1. The VS Code client's event stream with its reconnection, and the gRPC stream between
   worker and agents, as a protocol of its own.
