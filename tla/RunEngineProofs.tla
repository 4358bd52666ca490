--------------------------- MODULE RunEngineProofs ---------------------------
(***************************************************************************)
(* RunEngine keeps its safety properties for every set of ideas, every     *)
(* retry limit, every kind of output of pillars 3 and 4 and any number of  *)
(* crashes, and it implements GatedPipeline.                               *)
(***************************************************************************)
EXTENDS RunEngine, RunGraphProofs

out == checkpoint.values.output
decision == checkpoint.values.gate_decision

(***************************************************************************)
(* The inductive invariant.  Three facts that the code never states make   *)
(* the gates work: where the checkpoint stands tells which outputs exist;  *)
(* a decision that a resume injected was signed for the gate it is about   *)
(* to pass; and an approval found at a gate that was passed is that gate's *)
(* own, not one left over from an earlier gate.                            *)
(***************************************************************************)

OutputsMatchPosition == Positioned(checkpoint)

InjectedIsSigned ==
    call = "resumed" /\ decision = "approved" => GatesActedOn \subseteq signed

PassedIsSigned ==
    checkpoint.last \in GateNodes /\ decision = "approved" => checkpoint.last \in signed

IInv ==
    /\ TypeOK
    /\ OutputsMatchPosition
    /\ InjectedIsSigned
    /\ PassedIsSigned
    /\ PivotBound
    /\ NoPillarWithoutApproval

-----------------------------------------------------------------------------
(* Type correctness *)

LEMMA InitialState == ASSUME Init PROVE IInv
  <1>1. PICK idea \in Ideas :
          checkpoint = [last |-> "START", values |-> make_initial_state(idea)]
    BY DEF Init
  <1>2. checkpoint.values = make_initial_state(idea) /\ checkpoint.last = "START"
    BY <1>1
  <1>3. make_initial_state(idea) \in RunState
    BY DEF make_initial_state, RunState, Outputs, Pillars
  <1>4. TypeOK
    BY <1>1, <1>3, MaxCrashesAssumption DEF Init, TypeOK, Checkpoint
  <1>5. \A p \in Pillars : out[p] = "none"
    BY <1>2 DEF make_initial_state, out
  <1>6. PivotBound
    BY <1>2, RunGraphAssumption DEF make_initial_state, PivotBound
  <1> QED
    BY <1>2, <1>4, <1>5, <1>6 DEF Init, IInv, OutputsMatchPosition, Positioned,
       InjectedIsSigned, PassedIsSigned, NoPillarWithoutApproval, out, Pillars, After2,
       After3, After4, After5, After6, After7, GateNodes

LEMMA TypePreserved == ASSUME TypeOK, [Next]_vars PROVE TypeOK'
  <1> USE DEF TypeOK
  <1>1. CASE SuperStep
    <2>1. next_of(checkpoint) \in Nodes
      BY <1>1, NextNodeType DEF SuperStep, Stops
    <2>2. PICK r \in NodeResults(next_of(checkpoint), checkpoint.values) :
            checkpoint' = [last |-> next_of(checkpoint), values |-> r]
      BY <1>1 DEF SuperStep
    <2>3. r \in RunState
      BY <2>1, <2>2, NodeResultsType DEF Checkpoint
    <2> QED BY <1>1, <2>1, <2>2, <2>3 DEF SuperStep, Checkpoint
  <1>2. CASE Return BY <1>2 DEF Return
  <1>3. CASE Resume
    <2>1. PICK d \in Decisions, t \in Ideas \cup {NoPivot} : resume(d, t)
      BY <1>3 DEF Resume
    <2> QED BY <2>1, InjectType DEF resume, GatesActedOn
  <1>4. CASE Crash BY <1>4, MaxCrashesAssumption DEF Crash
  <1>5. CASE UNCHANGED vars BY <1>5 DEF vars
  <1> QED BY <1>1, <1>2, <1>3, <1>4, <1>5 DEF Next

-----------------------------------------------------------------------------
(* The inductive invariant *)

\* Whoever comes after a gate finds it signed.
LEMMA SignedBefore ==
    ASSUME TypeOK, PassedIsSigned, next_of(checkpoint) \in Nodes
    PROVE  LET n == next_of(checkpoint)
           IN  /\ n = "run_pillar_2" => "validation_gate" \in signed
               /\ n = "run_pillar_3" => "architecture_gate" \in signed
               /\ n = "run_pillar_6" => out[5] # "costly" \/ "infra_spend_gate" \in signed
               /\ n = "run_pillar_7" => "launch_gate" \in signed
  BY Edges DEF TypeOK, PassedIsSigned, GateNodes, decision, out

LEMMA SuperStepPreserves == ASSUME IInv, SuperStep PROVE IInv'
  <1> DEFINE n == next_of(checkpoint)
  <1>1. checkpoint \in Checkpoint /\ n \in Nodes
    BY NextNodeType DEF IInv, TypeOK, SuperStep, Stops
  <1>2. PICK r \in NodeResults(n, checkpoint.values) :
          checkpoint' = [last |-> n, values |-> r]
    BY DEF SuperStep
  <1>3. checkpoint.values \in RunState BY <1>1 DEF Checkpoint
  <1>4. /\ checkpoint'.last = n /\ checkpoint'.values = r
        /\ signed' = signed /\ call' = "running"
    BY <1>2 DEF SuperStep
  <1> HIDE DEF n
  <1>5. TypeOK' BY TypePreserved DEF IInv, Next
  <1>6. OutputsMatchPosition'
    BY <1>1, <1>2, <1>4, SuperStepKeepsPosition DEF IInv, OutputsMatchPosition, n
  <1>7. InjectedIsSigned' BY <1>4 DEF InjectedIsSigned
  <1>8. PassedIsSigned'
    <2>1. n \in GateNodes => call = "resumed" /\ n \in GatesActedOn
      BY DEF SuperStep, Stops, interrupt_before, IInv, TypeOK, GatesActedOn, n
    <2>2. n \in GateNodes => r.gate_decision = decision
      BY <1>1, <1>2, <1>3, NodeEffects DEF GateNodes, decision
    <2> QED BY <1>4, <2>1, <2>2 DEF IInv, InjectedIsSigned, PassedIsSigned, decision
  <1>9. PivotBound'
    <2>1. CASE n = "pivot_rerun"
      BY <1>1, <1>2, <1>3, <1>4, <2>1, NodeEffects, Edges, RunGraphAssumption
      DEF PivotBound, RunState, n
    <2>2. CASE n # "pivot_rerun"
      BY <1>1, <1>2, <1>3, <1>4, <2>2, NodeEffects DEF IInv, PivotBound
    <2> QED BY <2>1, <2>2
  <1>10. NoPillarWithoutApproval'
    <2>1. /\ n = "run_pillar_2" => "validation_gate" \in signed
          /\ n = "run_pillar_3" => "architecture_gate" \in signed
          /\ n = "run_pillar_6" => out[5] # "costly" \/ "infra_spend_gate" \in signed
          /\ n = "run_pillar_7" => "launch_gate" \in signed
      BY <1>1, SignedBefore DEF IInv, n
    <2>2. n = "run_pillar_5" => r.output[6] = "none"
      BY <1>4, <1>6 DEF OutputsMatchPosition, Positioned, out, After6
    <2>3. /\ n # "run_pillar_2" => r.output[2] = out[2]
          /\ n # "run_pillar_3" => r.output[3] = out[3]
          /\ n # "run_pillar_5" => r.output[5] = out[5]
          /\ n # "run_pillar_6" => r.output[6] = out[6]
          /\ n # "run_pillar_7" => r.output[7] = out[7]
      BY <1>1, <1>2, <1>3, NodeEffects DEF out
    <2> QED BY <1>4, <2>1, <2>2, <2>3 DEF IInv, NoPillarWithoutApproval, out
  <1> QED BY <1>5, <1>6, <1>7, <1>8, <1>9, <1>10 DEF IInv

LEMMA ResumePreserves == ASSUME IInv, Resume PROVE IInv'
  <1>1. PICK d \in Decisions, t \in Ideas \cup {NoPivot} : resume(d, t)
    BY DEF Resume
  <1>2. checkpoint \in Checkpoint /\ signed \subseteq signed' BY <1>1 DEF IInv, TypeOK, resume
  <1>3. /\ checkpoint' \in Checkpoint
        /\ checkpoint'.last = checkpoint.last
        /\ checkpoint'.values.gate_decision = d
        /\ checkpoint'.values.output = out
        /\ checkpoint'.values.retry_count = checkpoint.values.retry_count
    BY <1>1, <1>2, InjectType DEF resume, out
  <1>4. d = "approved" => GatesActedOn \subseteq signed' BY <1>1 DEF resume
  <1>5. GatesActedOn' \subseteq GatesActedOn
    BY <1>1, <1>2, <1>3, InjectGate DEF resume, GatesActedOn
  <1>6. TypeOK' BY <1>1, TypePreserved DEF IInv, Next, Resume
  <1>7. OutputsMatchPosition' BY <1>3 DEF IInv, OutputsMatchPosition, Positioned, out
  <1>8. InjectedIsSigned' BY <1>3, <1>4, <1>5 DEF InjectedIsSigned, decision
  <1>9. PassedIsSigned' BY <1>3, <1>4 DEF PassedIsSigned, decision, GatesActedOn
  <1>10. PivotBound' BY <1>3 DEF IInv, PivotBound
  <1>11. NoPillarWithoutApproval' BY <1>2, <1>3 DEF IInv, NoPillarWithoutApproval, out
  <1> QED BY <1>6, <1>7, <1>8, <1>9, <1>10, <1>11 DEF IInv

\* Return, a crash and a stutter leave the checkpoint and the signatures alone.
LEMMA OthersPreserve == ASSUME IInv, Return \/ Crash \/ UNCHANGED vars PROVE IInv'
  <1>1. TypeOK' BY TypePreserved DEF IInv, Next
  <1>2. checkpoint' = checkpoint /\ signed' = signed /\ call' \in {"idle", call}
    BY DEF Return, Crash, vars
  <1> QED
    BY <1>1, <1>2 DEF IInv, OutputsMatchPosition, InjectedIsSigned, PassedIsSigned,
       PivotBound, NoPillarWithoutApproval, GatesActedOn, out, decision

LEMMA Inductive == Spec => []IInv
  <1>1. Init => IInv BY InitialState
  <1>2. IInv /\ [Next]_vars => IInv'
    BY SuperStepPreserves, ResumePreserves, OthersPreserve DEF Next
  <1> QED BY <1>1, <1>2, PTL DEF Spec

-----------------------------------------------------------------------------
(* The theorems *)

\* Type correctness: in particular the checkpoint is always at a node of the graph.
THEOREM TypeCorrect == Spec => []TypeOK
  BY Inductive, PTL DEF IInv

\* The idea is never pivoted more than _MAX_PIVOT_RETRIES times (edges.py, nodes.pivot_rerun).
THEOREM PivotsAreBounded == Spec => []PivotBound
  BY Inductive, PTL DEF IInv

\* No pillar behind a gate works without that gate's approval, whatever resume is
\* called with, whenever, and wherever a crash hits (graph.py, engine.resume).
THEOREM PillarsNeedApproval == Spec => []NoPillarWithoutApproval
  BY Inductive, PTL DEF IInv

-----------------------------------------------------------------------------
(* The engine implements the promise *)

\* The state of GatedPipeline, as RunEngine's Promise maps it.
done == {p \in Pillars : out[p] # "none"}
costly == out[5] = "costly"
pivots == checkpoint.values.retry_count

\* A superstep of a pillar is that pillar's Work, one of pivot_rerun is a Pivot, and
\* every other one, as well as that of a pillar that failed, changes nothing.
LEMMA SuperStepRefines ==
    ASSUME IInv, SuperStep
    PROVE  Promise!Next \/ UNCHANGED <<done, signed, costly, pivots>>
  <1> DEFINE n == next_of(checkpoint)
             s == checkpoint.values
  <1>1. checkpoint \in Checkpoint /\ n \in Nodes /\ s \in RunState
    BY NextNodeType DEF IInv, TypeOK, SuperStep, Stops, Checkpoint
  <1>2. PICK r \in NodeResults(n, s) : checkpoint' = [last |-> n, values |-> r]
    BY DEF SuperStep
  <1>3. checkpoint'.values = r /\ signed' = signed
    BY <1>2 DEF SuperStep
  <1>4. /\ n = "run_pillar_3" => 2 \in done
        /\ n = "run_pillar_4" => 3 \in done
        /\ n \in {"run_pillar_5", "run_pillar_6"} => 4 \in done
        /\ n = "run_pillar_7" => 6 \in done
        /\ n = "pivot_rerun" => 2 \notin done
    BY <1>1, Edges DEF IInv, OutputsMatchPosition, Positioned, done, out, Pillars, After2,
       After3, After4, After5, After6, After7
  <1>5. /\ n = "run_pillar_2" => "validation_gate" \in signed
        /\ n = "run_pillar_3" => "architecture_gate" \in signed
        /\ n = "run_pillar_6" => ~costly \/ "infra_spend_gate" \in signed
        /\ n = "run_pillar_7" => "launch_gate" \in signed
    BY <1>1, SignedBefore DEF IInv, costly
  <1>6. n = "pivot_rerun" => pivots < MaxPivotRetries
    BY <1>1, Edges DEF pivots
  <1>7. done' = {p \in Pillars : r.output[p] # "none"} /\ costly' = (r.output[5] = "costly")
        /\ pivots' = r.retry_count
    BY <1>3 DEF done, costly, pivots, out
  <1>8. done = {p \in Pillars : s.output[p] # "none"} /\ costly = (s.output[5] = "costly")
        /\ pivots = s.retry_count
    BY DEF done, costly, pivots, out
  <1> HIDE DEF n, s
  <1>9. CASE n \notin {"run_pillar_1", "run_pillar_2", "run_pillar_3", "run_pillar_4",
                       "run_pillar_5", "run_pillar_6", "run_pillar_7", "pivot_rerun"}
    <2>1. \A p \in Pillars : r.output[p] = s.output[p]
      BY <1>1, <1>2, <1>9, NodeEffects DEF Pillars
    <2> QED BY <1>1, <1>2, <1>3, <1>7, <1>8, <1>9, <2>1, NodeEffects DEF Pillars
  <1>10. CASE n = "pivot_rerun"
    <2>1. done' = done \ {1} /\ costly' = costly /\ pivots' = pivots + 1
      BY <1>1, <1>2, <1>7, <1>8, <1>10, NodeEffects DEF Pillars
    <2>2. Promise!Pivot
      BY <1>3, <1>4, <1>6, <1>10, <2>1 DEF Promise!Pivot, done, costly, pivots, out
    <2> QED BY <2>2 DEF Promise!Next
  <1>11. ASSUME NEW p \in Pillars,
                <<p, n>> \in {<<1, "run_pillar_1">>, <<2, "run_pillar_2">>,
                             <<3, "run_pillar_3">>, <<4, "run_pillar_4">>,
                             <<5, "run_pillar_5">>, <<6, "run_pillar_6">>,
                             <<7, "run_pillar_7">>}
         PROVE  Promise!Next \/ UNCHANGED <<done, signed, costly, pivots>>
    <2>1. \A q \in Pillars \ {p} : r.output[q] = s.output[q]
      BY <1>1, <1>2, <1>11, NodeEffects DEF Pillars
    <2>2. r.output[p] # "none" \/ r.output[p] = s.output[p]
      BY <1>1, <1>2, <1>11, NodeEffects
    <2>3. pivots' = pivots
      BY <1>1, <1>2, <1>7, <1>8, <1>11, NodeEffects
    <2>4. p # 5 => costly' = costly
      BY <1>7, <1>8, <2>1 DEF Pillars
    <2>5. CASE r.output[p] = s.output[p]
      <3>1. done' = done BY <1>7, <1>8, <2>1, <2>5
      <3>2. costly' = costly BY <1>7, <1>8, <2>1, <2>5 DEF Pillars
      <3> QED BY <1>3, <2>3, <3>1, <3>2
    <2>6. CASE r.output[p] # "none"
      <3>1. done' = done \cup {p} BY <1>7, <1>8, <2>1, <2>6
      <3>2. costly' \in BOOLEAN BY <1>7
      <3>3. Promise!MayWork(p)
        BY <1>4, <1>5, <1>11 DEF Promise!MayWork, done, costly, out
      <3>4. Promise!Work(p)
        BY <1>3, <2>3, <2>4, <3>1, <3>2, <3>3 DEF Promise!Work, done, costly, pivots, out
      <3> QED BY <3>4 DEF Promise!Next, Pillars
    <2> QED BY <2>2, <2>5, <2>6
  <1> QED BY <1>9, <1>10, <1>11 DEF Pillars

\* A resume that approves signs the gate it acts on; any other one changes nothing.
LEMMA ResumeRefines ==
    ASSUME IInv, Resume
    PROVE  Promise!Next \/ UNCHANGED <<done, signed, costly, pivots>>
  <1>1. PICK d \in Decisions, t \in Ideas \cup {NoPivot} : resume(d, t)
    BY DEF Resume
  <1>2. checkpoint \in Checkpoint BY DEF IInv, TypeOK
  <1>3. UNCHANGED <<done, costly, pivots>>
    BY <1>1, <1>2, InjectType DEF resume, done, costly, pivots, out
  <1>4. CASE signed' = signed BY <1>3, <1>4
  <1>5. CASE signed' # signed
    <2>1. signed' = signed \cup GatesActedOn BY <1>1, <1>5 DEF resume
    <2>2. PICK g \in GatesActedOn : g \notin signed BY <1>5, <2>1
    <2>3. GatesActedOn = {g}
      BY <1>2, <2>2, NoGateAfterGate DEF GatesActedOn
    <2>4. /\ g = "architecture_gate" => 2 \in done
          /\ g = "infra_spend_gate" => costly
          /\ g = "launch_gate" => 6 \in done
      <3>1. g = next_of(checkpoint) \/ g = checkpoint.last BY <2>2 DEF GatesActedOn
      <3>2. CASE g = checkpoint.last
        BY <3>2 DEF IInv, OutputsMatchPosition, Positioned, done, costly, out, Pillars,
              After2, After6
      <3>3. CASE g = next_of(checkpoint)
        <4>1. g \in GateNodes /\ g \in Nodes BY <2>2 DEF GatesActedOn, Nodes
        <4>2. /\ g = "architecture_gate" => checkpoint.last \in After2
              /\ g = "infra_spend_gate" => out[5] = "costly"
              /\ g = "launch_gate" => checkpoint.last \in After6
          BY <1>2, <3>3, <4>1, Edges DEF After2, After6, out
        <4> QED BY <4>2 DEF IInv, OutputsMatchPosition, Positioned, done, costly, out, Pillars
      <3> QED BY <3>1, <3>2, <3>3
    <2>5. g \in Promise!Gates BY <2>2 DEF GatesActedOn, GateNodes, Promise!Gates
    <2>6. Promise!Sign(g)
      BY <1>3, <2>1, <2>3, <2>4 DEF Promise!Sign, Promise!MaySign, done, costly, pivots, out
    <2> QED BY <2>5, <2>6 DEF Promise!Next
  <1> QED BY <1>4, <1>5

\* One caller at a time, the engine keeps the promise: pillars in order, each behind
\* its gate's approval, and a bounded number of pivots before any building.
THEOREM EngineImplementsGatedPipeline == Spec => ImplementsGatedPipeline
  <1>1. Init => Promise!Init
    <2> SUFFICES ASSUME Init PROVE Promise!Init OBVIOUS
    <2>1. PICK idea \in Ideas : checkpoint.values = make_initial_state(idea)
      BY DEF Init
    <2> QED BY <2>1 DEF Init, Promise!Init, make_initial_state, Pillars
  <1>2. IInv /\ [Next]_vars => [Promise!Next]_(Promise!pipelineVars)
    <2> SUFFICES ASSUME IInv, [Next]_vars
                 PROVE  Promise!Next \/ UNCHANGED <<done, signed, costly, pivots>>
      BY DEF Promise!pipelineVars, done, costly, pivots, out
    <2>1. CASE SuperStep BY <2>1, SuperStepRefines
    <2>2. CASE Resume BY <2>2, ResumeRefines
    <2>3. CASE Return \/ Crash \/ UNCHANGED vars
      BY <2>3 DEF Return, Crash, vars, done, costly, pivots, out
    <2> QED BY <2>1, <2>2, <2>3 DEF Next
  <1> QED BY <1>1, <1>2, Inductive, PTL DEF Spec, ImplementsGatedPipeline, Promise!Spec

=============================================================================
