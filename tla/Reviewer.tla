------------------------------ MODULE Reviewer ------------------------------
(***************************************************************************)
(* agents/reviewer: one run of the reviewer, from BaseAgent.run to its     *)
(* return.  The graph spins a sandbox, runs its gates in parallel, has the *)
(* result judged and triaged, and approves, escalates, or patches the code *)
(* and starts over.  One action is one superstep of the graph.             *)
(*                                                                         *)
(* A gate's result is what triage reads of it, and nothing is assumed of   *)
(* how the results of one cycle relate to those of the next: a patch may   *)
(* break what worked.  SonarQube's result is never read.                   *)
(***************************************************************************)
EXTENDS Naturals

CONSTANTS
    MaxHealCycles,   \* MAX_HEAL_CYCLES
    RecursionLimit   \* _RECURSION_LIMIT, the supersteps LangGraph allows

ASSUME LimitsAssumption ==
    /\ MaxHealCycles \in Nat
    /\ RecursionLimit \in Nat
    /\ 6 * MaxHealCycles + 8 <= RecursionLimit

VARIABLES
    node,     \* the node of the next superstep, or "END"
    state,    \* the ReviewerState
    images,   \* the Docker images of this run on the host, each by its cycle
    steps,    \* supersteps so far, counted up to one over the limit
    outcome,  \* what became of BaseAgent.run
    tested    \* history: the code the unit tests last ran on, by its heal_cycle

vars == <<node, state, images, steps, outcome, tested>>

NoImage == MaxHealCycles + 1

Crash == "crashed"

\* What triage tells apart.  No result yet counts as "clean", but for the unit tests.
LintResults == {"clean", "fixable", "unfixable"}
UnitResults == {"passed", "low_coverage", "failed"}
E2EResults == {"clean", "failed"}
Findings == {"clean", "fixable", "fixable_critical", "hard_block"}
Scores == {"none", "approved", "rejected"}
Decisions == {"none", "approved", "heal", "escalate"}

Nodes == {"ingest_code", "spin_sandbox", "gates", "test_join", "llm_judge", "triage_failures",
          "auto_heal", "teardown_sandbox", "emit_report", "error_handler", "END"}

ReviewerState ==
    [fatal_error : BOOLEAN, errors : BOOLEAN,
     lint : LintResults, unit : UnitResults \cup {"none"}, e2e : E2EResults,
     findings : Findings, score : Scores, decision : Decisions,
     heal_cycle : Nat, image_tag : Nat, is_approved : BOOLEAN, report : BOOLEAN]

TypeOK ==
    /\ node \in Nodes
    /\ state \in ReviewerState
    /\ images \subseteq Nat
    /\ steps \in Nat
    /\ outcome \in {"running", "returned", "verify_error", "raised"}
    /\ tested \in Nat

Init ==
    /\ node = "ingest_code"
    /\ state = [fatal_error |-> FALSE, errors |-> FALSE,
                lint |-> "clean", unit |-> "none", e2e |-> "clean",
                findings |-> "clean", score |-> "none", decision |-> "none",
                heal_cycle |-> 0, image_tag |-> NoImage, is_approved |-> FALSE, report |-> FALSE]
    /\ images = {}
    /\ steps = 0
    /\ outcome = "running"
    /\ tested = NoImage

\* A superstep that ends in state s and takes the edge to n.
Superstep(from, s, n) ==
    /\ outcome = "running"
    /\ node = from
    /\ state' = s
    /\ node' = n
    /\ steps' = IF steps > RecursionLimit THEN steps ELSE steps + 1
    /\ UNCHANGED outcome

-----------------------------------------------------------------------------
(* routers.py *)

route_after_ingest(s) == IF s.fatal_error THEN "error_handler" ELSE "spin_sandbox"

\* Mutant: a node that does not exist.
route_after_sandbox_misnamed(s) == IF s.fatal_error THEN "error_handler" ELSE "run_gates"

route_after_sandbox(s) == IF s.fatal_error THEN "error_handler" ELSE "gates"

\* Mutant: the crash of the unit tests is not looked at.
route_after_join_unguarded(s) == IF s.fatal_error THEN "error_handler" ELSE "llm_judge"

route_after_join(s) ==
    IF s.fatal_error \/ (s.unit = "none" /\ s.errors) THEN "error_handler" ELSE "llm_judge"

route_after_triage(s) ==
    CASE s.fatal_error -> "error_handler"
      [] ~s.fatal_error /\ s.decision = "approved" -> "teardown_sandbox"
      [] ~s.fatal_error /\ s.decision = "heal" -> "auto_heal"
      [] OTHER -> "error_handler"

route_terminal(s) == IF s.fatal_error \/ ~s.report THEN "error_handler" ELSE "END"

-----------------------------------------------------------------------------
(* The nodes *)

ingest_code ==
    \E fatal \in BOOLEAN :
        LET s == [state EXCEPT !.fatal_error = fatal]
        IN  Superstep("ingest_code", s, route_after_ingest(s)) /\ UNCHANGED <<images, tested>>

\* tools/sandbox.py: docker rmi of the image the state names.
teardown == images \ {state.image_tag}

\* Mutant: the image of the cycle before is left where it is.
spin_sandbox_over ==
    \E built \in {state.heal_cycle, NoImage} :
        LET s == [state EXCEPT !.image_tag = built]
        IN  /\ Superstep("spin_sandbox", s, route_after_sandbox(s))
            /\ images' = images \cup ({built} \ {NoImage})
            /\ UNCHANGED tested

\* Without Docker or without a Dockerfile nothing is built; a build that fails keeps
\* the old tag in the state.
spin_sandbox ==
    /\ \/ \E built \in {state.heal_cycle, NoImage} :
              LET s == [state EXCEPT !.image_tag = built]
              IN  /\ Superstep("spin_sandbox", s, route_after_sandbox(s))
                  /\ images' = teardown \cup ({built} \ {NoImage})
       \/ LET s == [state EXCEPT !.fatal_error = TRUE]
          IN  /\ Superstep("spin_sandbox", s, route_after_sandbox(s))
              /\ images' = teardown
    /\ UNCHANGED tested

\* The five gates of one superstep.  One that crashed through all its retries adds to
\* error_count and leaves its field as it was (with_retry).
run_gates ==
    \E lint \in LintResults \cup {Crash}, unit \in UnitResults \cup {Crash},
       e2e \in E2EResults \cup {Crash}, findings \in Findings \cup {Crash},
       sonarqube \in {"clean", Crash} :
        LET Unless(result, old) == IF result = Crash THEN old ELSE result
            s == [state EXCEPT
                    !.errors = @ \/ Crash \in {lint, unit, e2e, findings, sonarqube},
                    !.lint = Unless(lint, @),
                    !.unit = Unless(unit, @),
                    !.e2e = Unless(e2e, @),
                    !.findings = Unless(findings, @)]
        IN  /\ Superstep("gates", s, "test_join")
            /\ tested' = IF unit = Crash THEN tested ELSE state.heal_cycle
            /\ UNCHANGED images

test_join ==
    Superstep("test_join", state, route_after_join(state)) /\ UNCHANGED <<images, tested>>

\* A judge that crashed leaves the score of the cycle before, or none at all.
llm_judge ==
    \E s \in {[state EXCEPT !.score = score] : score \in {"approved", "rejected"}}
                \cup {[state EXCEPT !.errors = TRUE]} :
        Superstep("llm_judge", s, IF s.fatal_error THEN "error_handler" ELSE "triage_failures")
        /\ UNCHANGED <<images, tested>>

HasFixableIssues(s) ==
    \/ s.lint = "fixable"
    \/ s.unit = "failed"
    \/ s.e2e = "failed"
    \/ s.findings \in {"fixable", "fixable_critical"}

\* Mutant: one cycle too many.
decide_inclusive(s) ==
    CASE s.findings = "hard_block" -> "escalate"
      [] s.findings # "hard_block" /\ HasFixableIssues(s) ->
            IF s.heal_cycle <= MaxHealCycles THEN "heal" ELSE "escalate"
      [] OTHER ->
            IF s.unit = "low_coverage" \/ s.score = "rejected" THEN "escalate" ELSE "approved"

decide(s) ==
    CASE s.findings = "hard_block" -> "escalate"
      [] s.findings # "hard_block" /\ HasFixableIssues(s) ->
            IF s.heal_cycle < MaxHealCycles THEN "heal" ELSE "escalate"
      [] OTHER ->
            IF s.unit = "low_coverage" \/ s.score = "rejected" THEN "escalate" ELSE "approved"

triage_failures ==
    LET d == decide(state)
        s == [state EXCEPT !.decision = d, !.is_approved = @ \/ d = "approved"]
    IN  Superstep("triage_failures", s, route_after_triage(s)) /\ UNCHANGED <<images, tested>>

\* Mutant: the count of the cycles wraps.
auto_heal_wrapping ==
    LET s == [state EXCEPT !.heal_cycle = (@ + 1) % MaxHealCycles]
    IN  Superstep("auto_heal", s, "spin_sandbox") /\ UNCHANGED <<images, tested>>

\* Whatever became of the patches, the cycle counts.
auto_heal ==
    LET s == [state EXCEPT !.heal_cycle = @ + 1]
    IN  Superstep("auto_heal", s, "spin_sandbox") /\ UNCHANGED <<images, tested>>

teardown_sandbox ==
    /\ Superstep("teardown_sandbox", [state EXCEPT !.image_tag = NoImage], "emit_report")
    /\ images' = teardown
    /\ UNCHANGED tested

\* There is always a report: build_fallback_report does without the model.
emit_report ==
    LET s == [state EXCEPT !.report = TRUE, !.is_approved = state.decision = "approved"]
    IN  Superstep("emit_report", s, route_terminal(s)) /\ UNCHANGED <<images, tested>>

error_handler ==
    /\ Superstep("error_handler",
                 [state EXCEPT !.decision = "escalate", !.is_approved = FALSE, !.report = TRUE],
                 "END")
    /\ images' = teardown
    /\ UNCHANGED tested

-----------------------------------------------------------------------------
(* agent.py and BaseAgent.run *)

\* The checks of ReviewerAgent.verify.
Verified(s) ==
    /\ s.decision # "none"
    /\ s.decision = "approved" =>
          /\ s.findings \notin {"hard_block", "fixable_critical"}
          /\ s.unit \notin {"none", "low_coverage"}

verify ==
    /\ outcome = "running"
    /\ node = "END"
    /\ outcome' = IF Verified(state) THEN "returned" ELSE "verify_error"
    /\ UNCHANGED <<node, state, images, steps, tested>>

\* The SLA ends at any time, and the nodes without with_retry may raise: execute is
\* given up, and no node of the graph runs any more.
give_up ==
    /\ outcome = "running"
    /\ outcome' = "raised"
    /\ UNCHANGED <<node, state, images, steps, tested>>

Step ==
    \/ ingest_code \/ spin_sandbox \/ run_gates \/ test_join \/ llm_judge \/ triage_failures
    \/ auto_heal \/ teardown_sandbox \/ emit_report \/ error_handler \/ verify

Next == Step \/ give_up

Spec == Init /\ [][Next]_vars

\* Every node returns: its calls have timeouts and its retries are counted.
FairSpec == Spec /\ WF_vars(Step)

-----------------------------------------------------------------------------
(* Properties *)

\* However the results of the cycles, their crashes and the judge's scores follow each
\* other, the code is patched at most MaxHealCycles times, and the graph ends within
\* the supersteps LangGraph allows it: a GraphRecursionError would skip the
\* escalation and the teardown (_decide, _RECURSION_LIMIT).
HealLoopIsBounded ==
    /\ state.heal_cycle <= MaxHealCycles
    /\ steps <= RecursionLimit

\* What the routers and the triage let through, verify accepts: no run is thrown away
\* at its end for having a verdict that the graph should not have reached
\* (route_after_join, _decide, ReviewerAgent.verify).
VerdictsAreVerified == outcome # "verify_error"

\* The loop keeps one image at a time, the one the state names, so that the teardown
\* at its end finds all there are; a run that returns leaves none on the host
\* (spin_sandbox, teardown_sandbox, error_handler).
ImagesAreTornDown ==
    /\ images \subseteq {state.image_tag}
    /\ outcome = "returned" => images = {}

\* Every run comes to an end, through all the cycles of patches (BaseAgent.run).
ReviewEnds == <>(outcome # "running")

\* docs/architecture/Agents-Architecture/reviewer-agent.md: after a patch the agent
\* "re-runs the full suite"; what is approved is code the unit tests ran on.
ApprovedIsTested == outcome = "returned" /\ state.is_approved => tested = state.heal_cycle

=============================================================================
