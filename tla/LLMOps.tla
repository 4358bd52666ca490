------------------------------- MODULE LLMOps -------------------------------
(***************************************************************************)
(* agents/llmops: the weekly analysis of the other agents' traces.  The    *)
(* LLM comments on them; drift and cost are computed from them.            *)
(***************************************************************************)
EXTENDS Naturals, Sequences, FiniteSets, FiniteSetsExt, Functions

CONSTANTS
    Inputs,        \* the sequences of traces that are analysed
    NoCoverage,    \* coverage_score of a trace that has none
    LLMOpsLimit    \* bound of the engine, not met: a run has five stages

VARIABLES status, steps, next, done, read, st

Agents(traces) == {traces[i].agent_id : i \in DOMAIN traces}
Organizations(traces) == {traces[i].organization_id : i \in DOMAIN traces}

Metrics == {"coverage_score", "verify_pass_rate", "avg_tokens"}

Alerts(traces) ==
    [agent_id : Agents(traces), metric : Metrics, severity : {"warning", "critical"}]

Initial(traces) ==
    [traces |-> traces, top_issues |-> {}, optimizations |-> {}, drift_alerts |-> {},
     total_tokens |-> 0, by_agent |-> <<>>, by_org |-> <<>>, routing_updates |-> {},
     critical |-> {}]

TypeOK ==
    /\ st.traces \in Inputs
    /\ st.top_issues \subseteq Agents(st.traces)
    /\ st.optimizations \subseteq Agents(st.traces)
    /\ st.drift_alerts \subseteq Alerts(st.traces)
    /\ st.total_tokens \in Nat
    /\ st.routing_updates \subseteq Agents(st.traces)
    /\ st.critical \subseteq st.drift_alerts

-----------------------------------------------------------------------------
(* Drift, statistically *)

DriftWarningPct == 10
DriftCriticalPct == 25

OfAgent(agent, traces) == {i \in DOMAIN traces : traces[i].agent_id = agent}

\* Mutant: the traces are halved in the order they came.
SortedBefore_unsorted(i, j, traces) == i < j

\* In the order of their timestamps, and as they came when these are the same.  The
\* timestamps are text that sorts as text: any total order, here that of numbers.
SortedBefore(i, j, traces) ==
    \/ traces[i].timestamp < traces[j].timestamp
    \/ traces[i].timestamp = traces[j].timestamp /\ i < j

Baseline(agent, traces) ==
    LET own == OfAgent(agent, traces)
    IN  {i \in own : Cardinality({j \in own : SortedBefore(j, i, traces)})
                        < Cardinality(own) \div 2}

Current(agent, traces) == OfAgent(agent, traces) \ Baseline(agent, traces)

Value(metric, trace) ==
    CASE metric = "coverage_score"   -> trace.coverage_score
      [] metric = "verify_pass_rate" -> IF trace.verify_passed THEN 1 ELSE 0
      [] metric = "avg_tokens"       -> trace.tokens_used

Measured(metric, half, traces) ==
    {i \in half : metric = "coverage_score" => traces[i].coverage_score # NoCoverage}

Total(metric, half, traces) == MapThenSumSet(LAMBDA i : Value(metric, traces[i]), half)

Distance(a, b) == IF a > b THEN a - b ELSE b - a

\* The means of both halves, b.sum/b.of and c.sum/c.of, differ by pct percent of the
\* first or more.  A mean of nothing, or of zero, drifts nowhere.
DriftsBy(pct, b, c) ==
    /\ b.of # 0 /\ c.of # 0 /\ b.sum # 0
    /\ Distance(c.sum * b.of, b.sum * c.of) * 100 >= pct * b.sum * c.of

_make_drift_alert(agent, metric, b, c) ==
    IF ~DriftsBy(DriftWarningPct, b, c) THEN {}
    ELSE {[agent_id |-> agent, metric |-> metric,
           severity |-> IF DriftsBy(DriftCriticalPct, b, c) THEN "critical" ELSE "warning"]}

AlertsOf(agent, metric, traces) ==
    LET mean(half) ==
            LET m == Measured(metric, half, traces)
            IN  [sum |-> Total(metric, m, traces), of |-> Cardinality(m)]
    IN  IF Baseline(agent, traces) = {} THEN {}
        ELSE _make_drift_alert(agent, metric, mean(Baseline(agent, traces)),
                               mean(Current(agent, traces)))

DriftIn(traces) ==
    IF Len(traces) < 4 THEN {}
    ELSE UNION {AlertsOf(a, m, traces) : a \in Agents(traces), m \in Metrics}

-----------------------------------------------------------------------------
(* The stages *)

Successors(n, s) ==
    CASE n = "_analyze_traces"  -> {"_optimize_prompts"}
      [] n = "_optimize_prompts" -> {"_detect_drift"}
      [] n = "_detect_drift"     -> {"_compute_finops"}
      [] n = "_compute_finops"   -> {"_build_summary"}
      [] n = "_build_summary"    -> {}

\* Whatever the LLM makes of traces; of no traces it is not asked.
_analyze_traces(s) == {[s EXCEPT !.top_issues = found] : found \in SUBSET Agents(s.traces)}

_optimize_prompts(s) == {[s EXCEPT !.optimizations = for] : for \in SUBSET Agents(s.traces)}

_detect_drift(s) == {[s EXCEPT !.drift_alerts = DriftIn(s.traces)]}

TokensOf(indices, traces) == MapThenSumSet(LAMBDA i : traces[i].tokens_used, indices)

_compute_finops(s) ==
    {[s EXCEPT
        !.total_tokens = TokensOf(DOMAIN s.traces, s.traces),
        !.by_agent = [a \in Agents(s.traces) |-> TokensOf(OfAgent(a, s.traces), s.traces)],
        !.by_org = [o \in Organizations(s.traces) |->
            TokensOf({i \in DOMAIN s.traces : s.traces[i].organization_id = o}, s.traces)]]}

\* An issue that speaks of expensive tokens has the agent's model replaced.
_build_routing_updates(s) == {s.top_issues \cap expensive : expensive \in SUBSET s.top_issues}

_build_summary(s) ==
    {[s EXCEPT !.critical = {a \in s.drift_alerts : a.severity = "critical"},
               !.routing_updates = u] : u \in _build_routing_updates(s)}

Returns(n, r, s) ==
    CASE n = "_analyze_traces"   -> _analyze_traces(s)
      [] n = "_optimize_prompts" -> _optimize_prompts(s)
      [] n = "_detect_drift"     -> _detect_drift(s)
      [] n = "_compute_finops"   -> _compute_finops(s)
      [] n = "_build_summary"    -> _build_summary(s)

\* The LLM call, which is made for traces only.
Raises(n, r) ==
    n \in {"_analyze_traces", "_optimize_prompts", "_compute_finops"} /\ r.traces # <<>>

Graph == INSTANCE AgentGraph WITH Entry <- "_analyze_traces", RecursionLimit <- LLMOpsLimit

-----------------------------------------------------------------------------

\* Its issues are in the value that BaseAgent.run does not read.
verify ==
    /\ status = "ended"
    /\ status' = "returned"
    /\ UNCHANGED <<steps, next, done, read, st>>

Init == \E traces \in Inputs : Graph!Start(Initial(traces))

Next == Graph!Step \/ verify \/ Graph!abandoned

-----------------------------------------------------------------------------

Reordered(traces) ==
    {[i \in DOMAIN traces |-> traces[p[i]]] :
        p \in Bijection(DOMAIN traces, DOMAIN traces)}

\* No agent has two traces of one time.
TimesDiffer(traces) ==
    \A i, j \in DOMAIN traces :
        i # j /\ traces[i].agent_id = traces[j].agent_id
            => traces[i].timestamp # traces[j].timestamp

\* The report adds up, by agent and by organization.  When no agent has two traces of
\* one time, its alerts depend on when the traces were made and not on the order they
\* arrived in; traces of one time are halved as they came (_detect_drift,
\* _compute_finops).
ReportIsOfTheTraces ==
    status = "returned" =>
        /\ st.total_tokens = MapThenSumSet(LAMBDA a : st.by_agent[a], DOMAIN st.by_agent)
        /\ st.total_tokens = MapThenSumSet(LAMBDA o : st.by_org[o], DOMAIN st.by_org)
        /\ TimesDiffer(st.traces) =>
              \A traces \in Reordered(st.traces) : DriftIn(traces) = st.drift_alerts

=============================================================================
