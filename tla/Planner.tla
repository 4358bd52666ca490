------------------------------- MODULE Planner -------------------------------
(***************************************************************************)
(* agents/product_planner: a PRD, its requirements, user stories and a     *)
(* roadmap, one LLM call after the other.  verify scores how well they are *)
(* traced and has the LLM drop what it cannot trace, once.                 *)
(***************************************************************************)
EXTENDS Naturals

CONSTANT PlannerLimit   \* bound of the engine, not met: a run has five stages

VARIABLES status, steps, next, done, read, st

\* Requirements either name the problem and the solution of the PRD or do not.  The
\* stories name no user of the PRD, all of them and others, or nobody else.
Requirements == {"none", "untraced", "traced"}
Stories == {"none", "unanchored", "partly", "anchored"}

\* score_coverage: the mean of three ratios, in sixths.
CoverageScores == 0..6

Initial ==
    [prd |-> FALSE, requirements |-> "none", user_stories |-> "none", roadmap_of |-> "none",
     markdown_of |-> <<"none", "none">>, persisted |-> FALSE, coverage_score |-> 0,
     confidence |-> "low"]

TypeOK ==
    /\ st.prd \in BOOLEAN /\ st.persisted \in BOOLEAN
    /\ st.requirements \in Requirements
    /\ st.user_stories \in Stories /\ st.roadmap_of \in Stories
    /\ st.markdown_of \in Requirements \X Stories
    /\ st.coverage_score \in CoverageScores
    /\ st.confidence \in {"low", "medium", "high"}

-----------------------------------------------------------------------------

score_coverage(requirements, stories) ==
    LET solution_coverage == IF requirements = "traced" THEN 2 ELSE 0
        persona_coverage  == IF stories \in {"partly", "anchored"} THEN 2 ELSE 0
        story_anchoring   == CASE stories = "anchored" -> 2 [] stories = "partly" -> 1 [] OTHER -> 0
    IN  solution_coverage + persona_coverage + story_anchoring

_compute_coverage(s) == score_coverage(s.requirements, s.user_stories)

\* 0.70 and 0.85.
CoverageThreshold == 5

confidence_band(score) == CASE score = 6 -> "high" [] score = 5 -> "medium" [] OTHER -> "low"

Successors(n, s) ==
    CASE n = "_generate_prd"          -> {"_extract_requirements"}
      [] n = "_extract_requirements"  -> {"_generate_user_stories"}
      [] n = "_generate_user_stories" -> {"_build_roadmap"}
      [] n = "_build_roadmap"         -> {"persist_prd"}
      [] n = "persist_prd"            -> {}

_generate_prd(s) == {[s EXCEPT !.prd = TRUE]}

\* What cannot be parsed, and every malformed item, is left out.
_extract_requirements(s) == {[s EXCEPT !.requirements = q] : q \in Requirements}

_generate_user_stories(s) == {[s EXCEPT !.user_stories = u] : u \in Stories}

\* Milestones name the stories there are.
_build_roadmap(s) == {[s EXCEPT !.roadmap_of = s.user_stories]}

Render(s) == [s EXCEPT !.markdown_of = <<s.requirements, s.user_stories>>]

\* The upload is best-effort.
persist_prd(s) == {[Render(s) EXCEPT !.persisted = p] : p \in BOOLEAN}

Returns(n, r, s) ==
    CASE n = "_generate_prd"          -> _generate_prd(s)
      [] n = "_extract_requirements"  -> _extract_requirements(s)
      [] n = "_generate_user_stories" -> _generate_user_stories(s)
      [] n = "_build_roadmap"         -> _build_roadmap(s)
      [] n = "persist_prd"            -> persist_prd(s)

\* The LLM call; of _generate_prd also an answer that is no PRD.
Raises(n, r) == n # "persist_prd"

Graph == INSTANCE AgentGraph WITH Entry <- "_generate_prd", RecursionLimit <- PlannerLimit

-----------------------------------------------------------------------------

\* Writes into the output it was given and returns it; an empty part of the answer
\* leaves that part alone.
_retry_generation(s) ==
    UNION {{[s EXCEPT !.requirements = q, !.user_stories = u] :
                u \in {s.user_stories} \cup (Stories \ {"none"})} :
           q \in {s.requirements} \cup (Requirements \ {"none"})}

Score(coverage, s) ==
    [s EXCEPT !.coverage_score = coverage, !.confidence = confidence_band(coverage)]

Retried(s) == _compute_coverage(s) < CoverageThreshold /\ s.requirements # "none"

Patch(coverage, retried) ==
    IF _compute_coverage(retried) > coverage
    THEN Score(_compute_coverage(retried), Render(retried))
    ELSE Score(coverage, retried)

verify ==
    /\ status = "ended"
    /\ \/ /\ ~Retried(st)
          /\ status' = "returned"
          /\ st' = Score(_compute_coverage(st), st)
       \/ /\ Retried(st)
          /\ status' = "returned"
          /\ \E retried \in _retry_generation(st) : st' = Patch(_compute_coverage(st), retried)
       \/ /\ Retried(st)
          /\ status' = "failed"
          /\ UNCHANGED st
    /\ UNCHANGED <<steps, next, done, read>>

vars == <<status, steps, next, done, read, st>>

Init == Graph!Start(Initial)

Next == Graph!Step \/ verify \/ Graph!abandoned

PlannerSpec == Init /\ [][Next]_vars

-----------------------------------------------------------------------------

\* What verify computes is the coverage of the plan that is returned
\* (ProductPlannerOutput.coverage_score, "filled by verify()").
ScoreIsOfThePlan ==
    status = "returned" => st.coverage_score = _compute_coverage(st)

=============================================================================
