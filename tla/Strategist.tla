----------------------------- MODULE Strategist -----------------------------
(***************************************************************************)
(* agents/strategy: five research branches side by side, the bias audit    *)
(* and the synthesis.  Every node is wrapped in with_retry: after its last *)
(* attempt it does not raise but counts as an error.                       *)
(***************************************************************************)
EXTENDS Naturals, FiniteSets

CONSTANTS
    StrategistLimit,  \* LangGraph's default recursion_limit
    MaxRetries        \* RetryPolicy.max_retries

VARIABLES status, steps, next, done, read, st

Research ==
    {"size_market", "discover_competitors", "mine_keywords", "generate_personas", "analyze_trends"}

Synthesis == {"synthesize_canvas", "score_viability", "render_report"}

Retried == {"normalize_idea", "audit_bias"} \cup Research \cup Synthesis

Initial == [produced |-> {}, failed |-> {}, error_count |-> 0, fatal_error |-> FALSE]

TypeOK ==
    /\ st.produced \subseteq Retried
    /\ st.failed \subseteq Retried \ st.produced
    /\ st.error_count = Cardinality(st.failed)
    /\ st.fatal_error \in BOOLEAN

-----------------------------------------------------------------------------

route_after_normalize(s) == IF s.fatal_error THEN {"error_handler"} ELSE Research

\* Mutant: one error more.
route_after_join_late(s) ==
    IF s.error_count > MaxRetries \/ s.fatal_error THEN {"error_handler"} ELSE {"audit_bias"}

route_after_join(s) ==
    IF s.error_count >= MaxRetries \/ s.fatal_error THEN {"error_handler"} ELSE {"audit_bias"}

route_after_audit(s) == IF s.fatal_error THEN {"error_handler"} ELSE {"synthesize_canvas"}

\* A report may be rendered, and be empty.
route_terminal(s) ==
    IF s.fatal_error \/ "render_report" \notin s.produced THEN {"error_handler"} ELSE {}

Successors(n, s) ==
    CASE n = "normalize_idea"    -> route_after_normalize(s)
      [] n \in Research          -> {"parallel_join"}
      [] n = "parallel_join"     -> route_after_join(s)
      [] n = "audit_bias"        -> route_after_audit(s)
      [] n = "synthesize_canvas" -> {"score_viability"}
      [] n = "score_viability"   -> {"render_report"}
      [] n = "render_report"     -> route_terminal(s)
      [] n = "error_handler"     -> {}

Produce(n, s) == [s EXCEPT !.produced = @ \cup {n}]

Fail(n, s) == [s EXCEPT !.failed = @ \cup {n}, !.error_count = @ + 1]

\* Mutant: error_count without its reducer, the last of the branches wins.
with_retry_overwrites(n, r, s) ==
    {Produce(n, s), [s EXCEPT !.failed = @ \cup {n}, !.error_count = r.error_count + 1]}

\* Tools that fail are done without; the LLM that fails, or answers twice with what
\* the schema does not accept, is asked max_retries times more.
with_retry(n, r, s) == {Produce(n, s), Fail(n, s)}

normalize_idea(r, s) == with_retry("normalize_idea", r, s)
size_market(r, s) == with_retry("size_market", r, s)
discover_competitors(r, s) == with_retry("discover_competitors", r, s)
mine_keywords(r, s) == with_retry("mine_keywords", r, s)
generate_personas(r, s) == with_retry("generate_personas", r, s)
analyze_trends(r, s) == with_retry("analyze_trends", r, s)
audit_bias(r, s) == with_retry("audit_bias", r, s)
synthesize_canvas(r, s) == with_retry("synthesize_canvas", r, s)
score_viability(r, s) == with_retry("score_viability", r, s)
render_report(r, s) == with_retry("render_report", r, s) \cup {s}
error_handler(s) == [s EXCEPT !.fatal_error = s.failed # {}]

Returns(n, r, s) ==
    CASE n = "normalize_idea"       -> normalize_idea(r, s)
      [] n = "size_market"          -> size_market(r, s)
      [] n = "discover_competitors" -> discover_competitors(r, s)
      [] n = "mine_keywords"        -> mine_keywords(r, s)
      [] n = "generate_personas"    -> generate_personas(r, s)
      [] n = "analyze_trends"       -> analyze_trends(r, s)
      [] n = "parallel_join"        -> {s}
      [] n = "audit_bias"           -> audit_bias(r, s)
      [] n = "synthesize_canvas"    -> synthesize_canvas(r, s)
      [] n = "score_viability"      -> score_viability(r, s)
      [] n = "render_report"        -> render_report(r, s)
      [] n = "error_handler"        -> {error_handler(s)}

Raises(n, r) == FALSE

Graph == INSTANCE AgentGraph WITH Entry <- "normalize_idea",
                                  RecursionLimit <- StrategistLimit

-----------------------------------------------------------------------------

\* StrategyAgent.verify: a fatal error or a missing part raises.
Complete(s) == ~s.fatal_error /\ Synthesis \subseteq s.produced

verify ==
    /\ status = "ended"
    /\ status' = IF Complete(st) THEN "returned" ELSE "failed"
    /\ UNCHANGED <<steps, next, done, read, st>>

Init == Graph!Start(Initial)

Next == Graph!Step \/ verify \/ Graph!abandoned

-----------------------------------------------------------------------------

\* A validation package that is returned has its canvas, score and report, and rests
\* on more than two research branches: branches that fail side by side are all counted,
\* with a failed normalize_idea among them (route_after_join, error_count's reducer).
PackageRestsOnResearch ==
    status = "returned" =>
        /\ Synthesis \subseteq st.produced
        /\ Cardinality(st.failed \cap (Research \cup {"normalize_idea"})) < MaxRetries

=============================================================================
