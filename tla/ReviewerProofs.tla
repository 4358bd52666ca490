--------------------------- MODULE ReviewerProofs ---------------------------
(***************************************************************************)
(* The safety of Reviewer for any limit of cycles, and for any recursion   *)
(* limit that leaves room for them.                                        *)
(***************************************************************************)
EXTENDS Reviewer, TLAPS

\* The supersteps of one cycle that come before a node, at most.
Budget(n) ==
    CASE n = "ingest_code" -> 0
      [] n = "spin_sandbox" -> 1
      [] n = "gates" -> 2
      [] n = "test_join" -> 3
      [] n = "llm_judge" -> 4
      [] n = "triage_failures" -> 5
      [] n \in {"auto_heal", "teardown_sandbox", "error_handler"} -> 6
      [] n = "emit_report" -> 7
      [] n = "END" -> 8

\* Each cycle costs six supersteps, and a cycle is begun only below the limit.
WithinBudget ==
    /\ state.heal_cycle <= MaxHealCycles
    /\ node = "auto_heal" => state.heal_cycle < MaxHealCycles
    /\ steps <= Budget(node) + 6 * state.heal_cycle

\* What the way to a node says of the verdict: an approval exists only behind triage,
\* and triage is reached only with a result of the unit tests.
VerdictIsEarned ==
    /\ state.fatal_error => node \in {"error_handler", "END"}
    /\ node = "test_join" /\ state.unit = "none" => state.errors
    /\ node \in {"llm_judge", "triage_failures"} => state.unit # "none"
    /\ node \in {"teardown_sandbox", "emit_report", "END"} => state.decision # "none"
    /\ state.decision = "approved" =>
          /\ node \in {"teardown_sandbox", "emit_report", "END"}
          /\ Verified(state)
    /\ outcome # "verify_error"

\* Where the images are gone.
SandboxIsNamed ==
    /\ images \subseteq {state.image_tag}
    /\ node \in {"emit_report", "END"} => images = {}
    /\ outcome = "returned" => node = "END"

IInv == TypeOK /\ WithinBudget /\ VerdictIsEarned /\ SandboxIsNamed

-----------------------------------------------------------------------------
(* The invariant holds at first and is kept by every superstep *)

\* The initial state satisfies the invariant.
LEMMA InitialState == Init => IInv
  <1> SUFFICES ASSUME Init PROVE IInv OBVIOUS
  <1>1. TypeOK
    BY LimitsAssumption DEF Init, TypeOK, Nodes, ReviewerState, LintResults, UnitResults,
       E2EResults, Findings, Scores, Decisions, NoImage
  <1>2. WithinBudget BY LimitsAssumption DEF Init, WithinBudget, Budget
  <1>3. VerdictIsEarned BY DEF Init, VerdictIsEarned
  <1>4. SandboxIsNamed BY DEF Init, SandboxIsNamed
  <1> QED BY <1>1, <1>2, <1>3, <1>4 DEF IInv

\* Below the budget the count of the supersteps is exact.
LEMMA Counted ==
    ASSUME IInv, NEW from, NEW s, NEW n, Superstep(from, s, n)
    PROVE  /\ outcome = "running" /\ outcome' = "running"
           /\ node = from /\ node' = n /\ state' = s
           /\ steps \in Nat /\ steps' = steps + 1
           /\ state.heal_cycle \in Nat
  <1>1. steps \in Nat /\ state.heal_cycle \in Nat /\ node \in Nodes
    BY DEF IInv, TypeOK, ReviewerState
  <1>2. Budget(node) \in 0..8 BY <1>1 DEF Nodes, Budget
  <1>3. steps <= RecursionLimit
    BY <1>1, <1>2, LimitsAssumption DEF IInv, WithinBudget
  <1> QED BY <1>1, <1>3, LimitsAssumption DEF Superstep

\* The input is there or not.
LEMMA IngestStep == ASSUME IInv, ingest_code PROVE IInv'
  <1> PICK fatal \in BOOLEAN :
        /\ Superstep("ingest_code", [state EXCEPT !.fatal_error = fatal],
                     route_after_ingest([state EXCEPT !.fatal_error = fatal]))
        /\ UNCHANGED <<images, tested>>
    BY DEF ingest_code
  <1> DEFINE s == [state EXCEPT !.fatal_error = fatal]
  <1>1. state \in ReviewerState /\ s \in ReviewerState BY DEF IInv, TypeOK, ReviewerState
  <1>2. /\ outcome = "running" /\ outcome' = "running"
        /\ node = "ingest_code" /\ node' = route_after_ingest(s) /\ state' = s
        /\ steps \in Nat /\ steps' = steps + 1 /\ state.heal_cycle \in Nat
    BY Counted
  <1>3. node' = IF fatal THEN "error_handler" ELSE "spin_sandbox"
    BY <1>1, <1>2 DEF route_after_ingest, ReviewerState
  <1>4. TypeOK' BY <1>1, <1>2, <1>3 DEF IInv, TypeOK, Nodes
  <1>5. WithinBudget' BY <1>1, <1>2, <1>3 DEF IInv, WithinBudget, Budget, ReviewerState
  <1>6. VerdictIsEarned' BY <1>1, <1>2, <1>3 DEF IInv, VerdictIsEarned, ReviewerState
  <1>7. SandboxIsNamed' BY <1>1, <1>2, <1>3 DEF IInv, SandboxIsNamed, ReviewerState
  <1> QED BY <1>4, <1>5, <1>6, <1>7 DEF IInv

\* The image of the cycle before goes, and at most one comes.
LEMMA SpinStep == ASSUME IInv, spin_sandbox PROVE IInv'
  <1>1. PICK s :
          /\ \/ \E built \in {state.heal_cycle, NoImage} :
                  /\ s = [state EXCEPT !.image_tag = built]
                  /\ images' = teardown \cup ({built} \ {NoImage})
             \/ s = [state EXCEPT !.fatal_error = TRUE] /\ images' = teardown
          /\ Superstep("spin_sandbox", s, route_after_sandbox(s))
          /\ UNCHANGED tested
    BY DEF spin_sandbox
  <1>2. /\ outcome = "running" /\ outcome' = "running"
        /\ node = "spin_sandbox" /\ node' = route_after_sandbox(s) /\ state' = s
        /\ steps \in Nat /\ steps' = steps + 1 /\ state.heal_cycle \in Nat
    BY <1>1, Counted
  <1>3. state \in ReviewerState /\ s \in ReviewerState
    <2>1. state \in ReviewerState BY DEF IInv, TypeOK
    <2>2. NoImage \in Nat BY LimitsAssumption DEF NoImage
    <2>3. CASE s = [state EXCEPT !.fatal_error = TRUE] BY <2>1, <2>3 DEF ReviewerState
    <2>4. ASSUME NEW built \in {state.heal_cycle, NoImage}, s = [state EXCEPT !.image_tag = built]
          PROVE  s \in ReviewerState
      <3>1. built \in Nat BY <2>1, <2>2 DEF ReviewerState
      <3> QED BY <2>1, <2>4, <3>1 DEF ReviewerState
    <2> QED BY <1>1, <2>1, <2>3, <2>4
  <1>4. teardown = {} BY DEF IInv, SandboxIsNamed, teardown
  <1>5. images' \subseteq {s.image_tag} BY <1>1, <1>3, <1>4 DEF ReviewerState
  <1>6. node' = IF s.fatal_error THEN "error_handler" ELSE "gates"
    BY <1>2 DEF route_after_sandbox
  <1>7. /\ s.heal_cycle = state.heal_cycle
        /\ s.decision = state.decision
    BY <1>1, <1>3 DEF ReviewerState
  <1>8. images' \subseteq Nat BY <1>3, <1>5 DEF ReviewerState
  <1>9. TypeOK' BY <1>1, <1>2, <1>3, <1>6, <1>8 DEF IInv, TypeOK, Nodes
  <1>10. WithinBudget' BY <1>2, <1>6, <1>7 DEF IInv, WithinBudget, Budget
  <1>11. VerdictIsEarned' BY <1>2, <1>6, <1>7 DEF IInv, VerdictIsEarned
  <1>12. SandboxIsNamed' BY <1>2, <1>5, <1>6 DEF SandboxIsNamed
  <1> QED BY <1>9, <1>10, <1>11, <1>12 DEF IInv

\* A crash of the unit tests without an earlier result is on record.
LEMMA GatesStep == ASSUME IInv, run_gates PROVE IInv'
  <1>1. PICK s \in ReviewerState :
          /\ Superstep("gates", s, "test_join")
          /\ s.heal_cycle = state.heal_cycle /\ s.decision = state.decision
          /\ s.image_tag = state.image_tag /\ s.fatal_error = state.fatal_error
          /\ s.unit = "none" => s.errors
          /\ tested' \in {tested, state.heal_cycle}
          /\ UNCHANGED images
    <2>1. PICK lint \in LintResults \cup {Crash}, unit \in UnitResults \cup {Crash},
               e2e \in E2EResults \cup {Crash}, findings \in Findings \cup {Crash},
               sonarqube \in {"clean", Crash} :
             LET Unless(result, old) == IF result = Crash THEN old ELSE result
                 s == [state EXCEPT
                         !.errors = @ \/ Crash \in {lint, unit, e2e, findings, sonarqube},
                         !.lint = Unless(lint, @),
                         !.unit = Unless(unit, @),
                         !.e2e = Unless(e2e, @),
                         !.findings = Unless(findings, @)]
             IN  /\ Superstep("gates", s, "test_join")
                 /\ tested' = IF unit = Crash THEN tested ELSE state.heal_cycle
                 /\ UNCHANGED images
      BY DEF run_gates
    <2> DEFINE Unless(result, old) == IF result = Crash THEN old ELSE result
               errors == state.errors \/ Crash \in {lint, unit, e2e, findings, sonarqube}
               s == [state EXCEPT
                         !.errors = errors,
                         !.lint = Unless(lint, state.lint),
                         !.unit = Unless(unit, state.unit),
                         !.e2e = Unless(e2e, state.e2e),
                         !.findings = Unless(findings, state.findings)]
    <2>2. state \in ReviewerState BY DEF IInv, TypeOK
    <2>3. errors \in BOOLEAN BY <2>2 DEF ReviewerState
    <2>4. Unless(lint, state.lint) \in LintResults BY <2>2 DEF ReviewerState
    <2>5. Unless(unit, state.unit) \in UnitResults \cup {"none"} BY <2>2 DEF ReviewerState
    <2>6. Unless(e2e, state.e2e) \in E2EResults BY <2>2 DEF ReviewerState
    <2>7. Unless(findings, state.findings) \in Findings BY <2>2 DEF ReviewerState
    <2>8. s \in ReviewerState
      <3> HIDE DEF Unless, errors
      <3> QED BY <2>2, <2>3, <2>4, <2>5, <2>6, <2>7 DEF ReviewerState
    <2>9. s.unit = "none" => s.errors
      <3>1. s.unit = Unless(unit, state.unit) /\ s.errors = errors
        BY <2>2 DEF ReviewerState
      <3>2. unit # Crash => Unless(unit, state.unit) # "none" BY DEF UnitResults, Crash
      <3>3. unit = Crash => errors OBVIOUS
      <3> QED BY <3>1, <3>2, <3>3
    <2>10. /\ s.heal_cycle = state.heal_cycle /\ s.decision = state.decision
           /\ s.image_tag = state.image_tag /\ s.fatal_error = state.fatal_error
      BY <2>2 DEF ReviewerState
    <2>11. Superstep("gates", s, "test_join") BY <2>1
    <2>12. tested' \in {tested, state.heal_cycle} /\ UNCHANGED images BY <2>1
    <2> HIDE DEF s
    <2> QED BY <2>8, <2>9, <2>10, <2>11, <2>12
  <1>2. /\ outcome = "running" /\ outcome' = "running"
        /\ node = "gates" /\ node' = "test_join" /\ state' = s
        /\ steps \in Nat /\ steps' = steps + 1 /\ state.heal_cycle \in Nat
    BY <1>1, Counted
  <1>3. TypeOK' BY <1>1, <1>2 DEF IInv, TypeOK, Nodes
  <1>4. WithinBudget' BY <1>1, <1>2 DEF IInv, WithinBudget, Budget
  <1>5. VerdictIsEarned' BY <1>1, <1>2 DEF IInv, VerdictIsEarned
  <1>6. SandboxIsNamed' BY <1>1, <1>2 DEF IInv, SandboxIsNamed
  <1> QED BY <1>3, <1>4, <1>5, <1>6 DEF IInv

\* Without a result of the unit tests there is no way to the judge.
LEMMA JoinStep == ASSUME IInv, test_join PROVE IInv'
  <1>1. /\ Superstep("test_join", state, route_after_join(state))
        /\ UNCHANGED <<images, tested>>
    BY DEF test_join
  <1>2. /\ outcome = "running" /\ outcome' = "running"
        /\ node = "test_join" /\ node' = route_after_join(state) /\ state' = state
        /\ steps \in Nat /\ steps' = steps + 1 /\ state.heal_cycle \in Nat
    BY <1>1, Counted
  <1>3. /\ node' \in {"error_handler", "llm_judge"}
        /\ node' = "llm_judge" => state.unit # "none" /\ ~state.fatal_error
    BY <1>2 DEF route_after_join, IInv, VerdictIsEarned
  <1>4. TypeOK' BY <1>1, <1>2, <1>3 DEF IInv, TypeOK, Nodes
  <1>5. WithinBudget' BY <1>2, <1>3 DEF IInv, WithinBudget, Budget
  <1>6. VerdictIsEarned' BY <1>2, <1>3 DEF IInv, VerdictIsEarned
  <1>7. SandboxIsNamed' BY <1>1, <1>2, <1>3 DEF IInv, SandboxIsNamed
  <1> QED BY <1>4, <1>5, <1>6, <1>7 DEF IInv

\* The judge changes the score, or records its crash.
LEMMA JudgeStep == ASSUME IInv, llm_judge PROVE IInv'
  <1>1. state \in ReviewerState BY DEF IInv, TypeOK
  <1>2. PICK s :
          /\ \/ \E score \in {"approved", "rejected"} : s = [state EXCEPT !.score = score]
             \/ s = [state EXCEPT !.errors = TRUE]
          /\ Superstep("llm_judge", s,
                       IF s.fatal_error THEN "error_handler" ELSE "triage_failures")
          /\ UNCHANGED <<images, tested>>
    BY DEF llm_judge
  <1>3. /\ s \in ReviewerState
        /\ s.heal_cycle = state.heal_cycle /\ s.decision = state.decision
        /\ s.image_tag = state.image_tag /\ s.fatal_error = state.fatal_error
        /\ s.unit = state.unit
    BY <1>1, <1>2 DEF ReviewerState, Scores
  <1>4. /\ outcome = "running" /\ outcome' = "running"
        /\ node = "llm_judge" /\ state' = s
        /\ node' = IF s.fatal_error THEN "error_handler" ELSE "triage_failures"
        /\ steps \in Nat /\ steps' = steps + 1 /\ state.heal_cycle \in Nat
    BY <1>2, Counted
  <1>5. TypeOK' BY <1>2, <1>3, <1>4 DEF IInv, TypeOK, Nodes
  <1>6. WithinBudget' BY <1>3, <1>4 DEF IInv, WithinBudget, Budget
  <1>7. VerdictIsEarned' BY <1>3, <1>4 DEF IInv, VerdictIsEarned
  <1>8. SandboxIsNamed' BY <1>2, <1>3, <1>4 DEF IInv, SandboxIsNamed
  <1> QED BY <1>5, <1>6, <1>7, <1>8 DEF IInv

\* Triage heals below the limit only, and approves only what verify accepts.
LEMMA TriageStep == ASSUME IInv, triage_failures PROVE IInv'
  <1> DEFINE d == decide(state)
             s == [state EXCEPT !.decision = d, !.is_approved = state.is_approved \/ d = "approved"]
  <1>1. state \in ReviewerState BY DEF IInv, TypeOK
  <1>2. Superstep("triage_failures", s, route_after_triage(s)) /\ UNCHANGED <<images, tested>>
    BY DEF triage_failures
  <1>3. /\ outcome = "running" /\ outcome' = "running"
        /\ node = "triage_failures" /\ node' = route_after_triage(s) /\ state' = s
        /\ steps \in Nat /\ steps' = steps + 1 /\ state.heal_cycle \in Nat
    BY <1>2, Counted
  <1>4. d \in {"heal", "escalate", "approved"} BY DEF decide
  <1>5. d = "heal" => state.heal_cycle < MaxHealCycles BY DEF decide
  <1>6. d = "approved" =>
          /\ state.findings \notin {"hard_block", "fixable_critical"}
          /\ state.unit # "low_coverage"
    BY DEF decide, HasFixableIssues
  <1>7. state.unit # "none" /\ ~state.fatal_error
    BY <1>3 DEF IInv, VerdictIsEarned
  <1> HIDE DEF d
  <1>8. /\ s \in ReviewerState
        /\ s.heal_cycle = state.heal_cycle /\ s.decision = d
        /\ s.image_tag = state.image_tag /\ s.fatal_error = state.fatal_error
        /\ s.unit = state.unit /\ s.findings = state.findings
    BY <1>1, <1>4 DEF ReviewerState, Decisions
  <1> HIDE DEF s
  <1>9. node' = CASE d = "approved" -> "teardown_sandbox"
                  [] d = "heal" -> "auto_heal"
                  [] d = "escalate" -> "error_handler"
    BY <1>3, <1>4, <1>7, <1>8 DEF route_after_triage
  <1>10. d = "approved" => Verified(s) BY <1>6, <1>7, <1>8 DEF Verified
  <1>11. TypeOK' BY <1>2, <1>3, <1>4, <1>8, <1>9 DEF IInv, TypeOK, Nodes
  <1>12. WithinBudget' BY <1>3, <1>4, <1>5, <1>8, <1>9 DEF IInv, WithinBudget, Budget
  <1>13. VerdictIsEarned' BY <1>3, <1>4, <1>7, <1>8, <1>9, <1>10 DEF IInv, VerdictIsEarned
  <1>14. SandboxIsNamed' BY <1>2, <1>3, <1>4, <1>8, <1>9 DEF IInv, SandboxIsNamed
  <1> QED BY <1>11, <1>12, <1>13, <1>14 DEF IInv

\* A new cycle pays for its six supersteps.
LEMMA HealStep == ASSUME IInv, auto_heal PROVE IInv'
  <1> DEFINE s == [state EXCEPT !.heal_cycle = @ + 1]
  <1>1. state \in ReviewerState BY DEF IInv, TypeOK
  <1>2. Superstep("auto_heal", s, "spin_sandbox") /\ UNCHANGED <<images, tested>>
    BY DEF auto_heal
  <1>3. /\ outcome = "running" /\ outcome' = "running"
        /\ node = "auto_heal" /\ node' = "spin_sandbox" /\ state' = s
        /\ steps \in Nat /\ steps' = steps + 1 /\ state.heal_cycle \in Nat
    BY <1>2, Counted
  <1>4. /\ s \in ReviewerState
        /\ s.heal_cycle = state.heal_cycle + 1 /\ s.decision = state.decision
        /\ s.image_tag = state.image_tag /\ s.fatal_error = state.fatal_error
    BY <1>1 DEF ReviewerState
  <1> HIDE DEF s
  <1>5. TypeOK' BY <1>2, <1>3, <1>4 DEF IInv, TypeOK, Nodes
  <1>6. WithinBudget' BY <1>3, <1>4, LimitsAssumption DEF IInv, WithinBudget, Budget
  <1>7. VerdictIsEarned' BY <1>3, <1>4 DEF IInv, VerdictIsEarned
  <1>8. SandboxIsNamed' BY <1>2, <1>3, <1>4 DEF IInv, SandboxIsNamed
  <1> QED BY <1>5, <1>6, <1>7, <1>8 DEF IInv

\* The image goes before its name does.
LEMMA TeardownStep == ASSUME IInv, teardown_sandbox PROVE IInv'
  <1> DEFINE s == [state EXCEPT !.image_tag = NoImage]
  <1>1. state \in ReviewerState BY DEF IInv, TypeOK
  <1>2. /\ Superstep("teardown_sandbox", s, "emit_report")
        /\ images' = teardown /\ UNCHANGED tested
    BY DEF teardown_sandbox
  <1>3. /\ outcome = "running" /\ outcome' = "running"
        /\ node = "teardown_sandbox" /\ node' = "emit_report" /\ state' = s
        /\ steps \in Nat /\ steps' = steps + 1 /\ state.heal_cycle \in Nat
    BY <1>2, Counted
  <1>4. /\ s \in ReviewerState
        /\ s.heal_cycle = state.heal_cycle /\ s.decision = state.decision
        /\ s.fatal_error = state.fatal_error
        /\ s.unit = state.unit /\ s.findings = state.findings
    BY <1>1, LimitsAssumption DEF ReviewerState, NoImage
  <1>5. images' = {} BY <1>2 DEF IInv, SandboxIsNamed, teardown
  <1> HIDE DEF s
  <1>6. TypeOK' BY <1>2, <1>3, <1>4, <1>5 DEF IInv, TypeOK, Nodes
  <1>7. WithinBudget' BY <1>3, <1>4 DEF IInv, WithinBudget, Budget
  <1>8. VerdictIsEarned' BY <1>3, <1>4 DEF IInv, VerdictIsEarned, Verified
  <1>9. SandboxIsNamed' BY <1>3, <1>5 DEF SandboxIsNamed
  <1> QED BY <1>6, <1>7, <1>8, <1>9 DEF IInv

\* The report of a run that is approved, with its images gone.
LEMMA EmitStep == ASSUME IInv, emit_report PROVE IInv'
  <1> DEFINE approved == state.decision = "approved"
             s == [state EXCEPT !.report = TRUE, !.is_approved = approved]
  <1>1. state \in ReviewerState BY DEF IInv, TypeOK
  <1>2. Superstep("emit_report", s, route_terminal(s)) /\ UNCHANGED <<images, tested>>
    BY DEF emit_report
  <1>3. /\ outcome = "running" /\ outcome' = "running"
        /\ node = "emit_report" /\ node' = route_terminal(s) /\ state' = s
        /\ steps \in Nat /\ steps' = steps + 1 /\ state.heal_cycle \in Nat
    BY <1>2, Counted
  <1>4. approved \in BOOLEAN OBVIOUS
  <1> HIDE DEF approved
  <1>5. /\ s \in ReviewerState /\ s.report
        /\ s.heal_cycle = state.heal_cycle /\ s.decision = state.decision
        /\ s.image_tag = state.image_tag /\ s.fatal_error = state.fatal_error
        /\ s.unit = state.unit /\ s.findings = state.findings
    BY <1>1, <1>4 DEF ReviewerState
  <1> HIDE DEF s
  <1>6. ~state.fatal_error /\ state.decision # "none"
    BY <1>3 DEF IInv, VerdictIsEarned
  <1>7. node' = "END" BY <1>3, <1>5, <1>6 DEF route_terminal
  <1>8. TypeOK' BY <1>2, <1>3, <1>5, <1>7 DEF IInv, TypeOK, Nodes
  <1>9. WithinBudget' BY <1>3, <1>5, <1>7 DEF IInv, WithinBudget, Budget
  <1>10. VerdictIsEarned' BY <1>3, <1>5, <1>6, <1>7 DEF IInv, VerdictIsEarned, Verified
  <1>11. SandboxIsNamed' BY <1>2, <1>3, <1>5, <1>7 DEF IInv, SandboxIsNamed
  <1> QED BY <1>8, <1>9, <1>10, <1>11 DEF IInv

\* The escalation takes the image with it.
LEMMA EscalationStep == ASSUME IInv, error_handler PROVE IInv'
  <1> DEFINE s == [state EXCEPT !.decision = "escalate", !.is_approved = FALSE, !.report = TRUE]
  <1>1. state \in ReviewerState BY DEF IInv, TypeOK
  <1>2. Superstep("error_handler", s, "END") /\ images' = teardown /\ UNCHANGED tested
    BY DEF error_handler
  <1>3. /\ outcome = "running" /\ outcome' = "running"
        /\ node = "error_handler" /\ node' = "END" /\ state' = s
        /\ steps \in Nat /\ steps' = steps + 1 /\ state.heal_cycle \in Nat
    BY <1>2, Counted
  <1>4. /\ s \in ReviewerState
        /\ s.heal_cycle = state.heal_cycle /\ s.decision = "escalate"
    BY <1>1 DEF ReviewerState, Decisions
  <1>5. images' = {} BY <1>2 DEF IInv, SandboxIsNamed, teardown
  <1> HIDE DEF s
  <1>6. TypeOK' BY <1>2, <1>3, <1>4, <1>5 DEF IInv, TypeOK, Nodes
  <1>7. WithinBudget' BY <1>3, <1>4 DEF IInv, WithinBudget, Budget
  <1>8. VerdictIsEarned' BY <1>3, <1>4 DEF VerdictIsEarned
  <1>9. SandboxIsNamed' BY <1>3, <1>5 DEF SandboxIsNamed
  <1> QED BY <1>6, <1>7, <1>8, <1>9 DEF IInv

\* The run returns with a verdict that verify accepts, or is given up.
LEMMA ReturnStep == ASSUME IInv, verify \/ give_up PROVE IInv'
  <1>1. /\ UNCHANGED <<node, state, images, steps, tested>>
        /\ \/ node = "END" /\ outcome' = IF Verified(state) THEN "returned" ELSE "verify_error"
           \/ outcome' = "raised"
    BY DEF verify, give_up
  <1>2. node = "END" => Verified(state) BY DEF IInv, VerdictIsEarned, Verified
  <1>3. outcome' = "raised" \/ (outcome' = "returned" /\ node = "END") BY <1>1, <1>2
  <1>4. TypeOK' BY <1>1, <1>3 DEF IInv, TypeOK
  <1>5. WithinBudget' BY <1>1 DEF IInv, WithinBudget
  <1>6. VerdictIsEarned' BY <1>1, <1>3 DEF IInv, VerdictIsEarned
  <1>7. SandboxIsNamed' BY <1>1, <1>3 DEF IInv, SandboxIsNamed
  <1> QED BY <1>4, <1>5, <1>6, <1>7 DEF IInv

\* Every step keeps the invariant.
LEMMA NextStep == IInv /\ [Next]_vars => IInv'
  <1> SUFFICES ASSUME IInv, [Next]_vars PROVE IInv' OBVIOUS
  <1>1. CASE UNCHANGED vars
    BY <1>1 DEF vars, IInv, TypeOK, WithinBudget, VerdictIsEarned, SandboxIsNamed
  <1>2. CASE ingest_code BY <1>2, IngestStep
  <1>3. CASE spin_sandbox BY <1>3, SpinStep
  <1>4. CASE run_gates BY <1>4, GatesStep
  <1>5. CASE test_join BY <1>5, JoinStep
  <1>6. CASE llm_judge BY <1>6, JudgeStep
  <1>7. CASE triage_failures BY <1>7, TriageStep
  <1>8. CASE auto_heal BY <1>8, HealStep
  <1>9. CASE teardown_sandbox BY <1>9, TeardownStep
  <1>10. CASE emit_report BY <1>10, EmitStep
  <1>11. CASE error_handler BY <1>11, EscalationStep
  <1>12. CASE verify \/ give_up BY <1>12, ReturnStep
  <1> QED
    BY <1>1, <1>2, <1>3, <1>4, <1>5, <1>6, <1>7, <1>8, <1>9, <1>10, <1>11, <1>12
    DEF Next, Step

\* The invariant holds in every reachable state.
LEMMA Invariance == Spec => []IInv
  BY InitialState, NextStep, PTL DEF Spec

-----------------------------------------------------------------------------
(* The theorems *)

\* Type correctness, for any limits (ReviewerState).
THEOREM TypeCorrect == Spec => []TypeOK
  <1>1. IInv => TypeOK BY DEF IInv
  <1> QED BY <1>1, Invariance, PTL

\* The code is patched at most MaxHealCycles times, and the graph ends within any
\* recursion limit that allows 6 * MaxHealCycles + 8 supersteps.
THEOREM HealLoopEnds == Spec => []HealLoopIsBounded
  <1>1. IInv => HealLoopIsBounded
    <2> SUFFICES ASSUME IInv PROVE HealLoopIsBounded OBVIOUS
    <2>1. state.heal_cycle \in Nat /\ steps \in Nat /\ node \in Nodes
      BY DEF IInv, TypeOK, ReviewerState
    <2>2. Budget(node) \in 0..8 BY <2>1 DEF Nodes, Budget
    <2> QED BY <2>1, <2>2, LimitsAssumption DEF IInv, WithinBudget, HealLoopIsBounded
  <1> QED BY <1>1, Invariance, PTL

\* No run reaches its end with a verdict that verify rejects.
THEOREM VerdictsPassVerify == Spec => []VerdictsAreVerified
  <1>1. IInv => VerdictsAreVerified BY DEF IInv, VerdictIsEarned, VerdictsAreVerified
  <1> QED BY <1>1, Invariance, PTL

\* There is at most one image at a time, and none after a run that returned.
THEOREM NoImageIsLeft == Spec => []ImagesAreTornDown
  <1>1. IInv => ImagesAreTornDown BY DEF IInv, SandboxIsNamed, ImagesAreTornDown
  <1> QED BY <1>1, Invariance, PTL

=============================================================================
