-------------------------------- MODULE Coder --------------------------------
(***************************************************************************)
(* agents/coder: backend, frontend, configuration and tests, one LLM call  *)
(* after the other.  verify judges the volume of what was generated.       *)
(***************************************************************************)
EXTENDS Naturals, FiniteSets

CONSTANT CoderLimit   \* bound of the engine, not met: a run has five stages

VARIABLES status, steps, next, done, read, st

Parts == {"backend_files", "frontend_files", "config_files", "test_files"}

\* How much a stage may bring, on both sides of the thresholds: nothing (also when the
\* answer cannot be parsed), empty files, a few files, many.
Volumes == {[files |-> 0, lines |-> 0], [files |-> 2, lines |-> 0],
            [files |-> 5, lines |-> 50], [files |-> 20, lines |-> 500]}

Nothing == [files |-> 0, lines |-> 0]

Initial ==
    [part |-> [p \in Parts |-> Nothing], has_main |-> FALSE, summarised |-> Nothing,
     total_files |-> 0, total_lines |-> 0, confidence |-> "low", warnings |-> {}]

TypeOK ==
    /\ st.part \in [Parts -> Volumes]
    /\ st.has_main => st.part["backend_files"].files > 0
    /\ st.summarised \in Volumes
    /\ st.total_files \in 0..80 /\ st.total_lines \in 0..2000
    /\ st.confidence \in {"low", "medium", "high"}
    /\ st.warnings \subseteq {"no_files", "no_main", "empty", "low_volume"}

-----------------------------------------------------------------------------

Successors(n, s) ==
    CASE n = "_generate_backend"  -> {"_generate_frontend"}
      [] n = "_generate_frontend" -> {"_generate_config"}
      [] n = "_generate_config"   -> {"_generate_tests"}
      [] n = "_generate_tests"    -> {"output"}
      [] n = "output"             -> {}

Generate(p, s) == {[s EXCEPT !.part[p] = v] : v \in Volumes}

_generate_backend(s) ==
    UNION {{[t EXCEPT !.has_main = main] :
                main \in {m \in BOOLEAN : m => t.part["backend_files"].files > 0}} :
           t \in Generate("backend_files", s)}

_generate_frontend(s) == Generate("frontend_files", s)
_generate_config(s) == Generate("config_files", s)

\* Of the backend its prompt has a summary.
_generate_tests(s) ==
    Generate("test_files", [s EXCEPT !.summarised = s.part["backend_files"]])

Total(field(_), s) ==
    field(s.part["backend_files"]) + field(s.part["frontend_files"])
        + field(s.part["config_files"]) + field(s.part["test_files"])

output(s) ==
    LET files(v) == v.files
        lines(v) == v.lines
    IN  {[s EXCEPT !.total_files = Total(files, s), !.total_lines = Total(lines, s)]}

Returns(n, r, s) ==
    CASE n = "_generate_backend"  -> _generate_backend(s)
      [] n = "_generate_frontend" -> _generate_frontend(s)
      [] n = "_generate_config"   -> _generate_config(s)
      [] n = "_generate_tests"    -> _generate_tests(s)
      [] n = "output"             -> output(s)

\* The LLM call.
Raises(n, r) == n # "output"

Graph == INSTANCE AgentGraph WITH Entry <- "_generate_backend", RecursionLimit <- CoderLimit

-----------------------------------------------------------------------------

HighVolume(s) == s.total_files >= 20 /\ s.total_lines >= 500
MediumVolume(s) == s.total_files >= 5 /\ s.total_lines >= 50

Confidence(s) ==
    CASE HighVolume(s) -> "high"
      [] MediumVolume(s) /\ ~HighVolume(s) -> "medium"
      [] OTHER -> "low"

\* Without any file there is nothing else to warn of.
Warnings(s) ==
    IF s.total_files = 0 THEN {"no_files"}
    ELSE {w \in {"no_main", "empty", "low_volume"} :
            \/ w = "no_main" /\ ~s.has_main /\ s.part["backend_files"].files > 0
            \/ w = "empty" /\ s.total_lines = 0
            \/ w = "low_volume" /\ s.total_lines > 0 /\ Confidence(s) = "low"}

\* The verdict is in the value that BaseAgent.run does not read.
verify ==
    /\ status = "ended"
    /\ status' = "returned"
    /\ st' = [st EXCEPT !.confidence = Confidence(st), !.warnings = Warnings(st)]
    /\ UNCHANGED <<steps, next, done, read>>

Init == Graph!Start(Initial)

Next == Graph!Step \/ verify \/ Graph!abandoned

=============================================================================
