----------------------------- MODULE RunEngine -----------------------------
(***************************************************************************)
(* One run of the graph, driven through OrchestratorEngine one call at a   *)
(* time: ainvoke on the initial state, then resume() whenever anyone calls *)
(* it -- at a gate, after the end, or in the middle of a pillar that a     *)
(* crash interrupted -- with any decision and any pivot text.  A superstep *)
(* is one node and the checkpoint written after it; a crash loses the node *)
(* that was running and keeps the checkpoint.                              *)
(***************************************************************************)
EXTENDS RunGraph

CONSTANT MaxCrashes   \* bounds the crashes, so that progress can be claimed

ASSUME MaxCrashesAssumption == MaxCrashes \in Nat

VARIABLES
    checkpoint,   \* the run's latest checkpoint
    call,         \* "idle", or the state of the ainvoke that is under way:
                  \* "resumed" until its first superstep, then "running"
    signed,       \* history: the gates that a resume("approved") acted on
    crashes       \* how many crashes there were

vars == <<checkpoint, call, signed, crashes>>

TypeOK ==
    /\ checkpoint \in Checkpoint
    /\ call \in {"idle", "resumed", "running"}
    /\ signed \subseteq GateNodes
    /\ crashes \in 0..MaxCrashes

-----------------------------------------------------------------------------

\* create_run, and the run.created consumer: ainvoke(make_initial_state(...)).
Init ==
    /\ \E idea \in Ideas :
         checkpoint = [last |-> "START", values |-> make_initial_state(idea)]
    /\ call = "running"
    /\ signed = {}
    /\ crashes = 0

\* The loop of ainvoke stops at the end of the graph, and before a gate unless
\* this call is the one that resumes from it.
Stops == next_of(checkpoint) = "END" \/ (interrupt_before(checkpoint) /\ call = "running")

SuperStep ==
    /\ call # "idle"
    /\ ~Stops
    /\ \E s \in NodeResults(next_of(checkpoint), checkpoint.values) :
         checkpoint' = [last |-> next_of(checkpoint), values |-> s]
    /\ call' = "running"
    /\ UNCHANGED <<signed, crashes>>

Return ==
    /\ call # "idle"
    /\ Stops
    /\ call' = "idle"
    /\ UNCHANGED <<checkpoint, signed, crashes>>

\* The gate a decision acts on: the one the run waits at, or the one it left last.
GatesActedOn == {checkpoint.last, next_of(checkpoint)} \cap GateNodes

resume(decision, pivot_text) ==
    /\ call = "idle"
    /\ checkpoint' = inject(checkpoint, decision, pivot_text)
    /\ call' = "resumed"
    /\ signed' = IF decision = "approved" THEN signed \cup GatesActedOn ELSE signed
    /\ UNCHANGED crashes

Crash ==
    /\ call # "idle"
    /\ crashes < MaxCrashes
    /\ call' = "idle"
    /\ crashes' = crashes + 1
    /\ UNCHANGED <<checkpoint, signed>>

Resume == \E d \in Decisions, t \in Ideas \cup {NoPivot} : resume(d, t)

Next == SuperStep \/ Return \/ Resume \/ Crash

Spec == Init /\ [][Next]_vars

\* The event loop runs a call to its end.
FairCalls == WF_vars(SuperStep) /\ WF_vars(Return)

\* For progress only: whoever answers the gates does not stop answering.
FairSpec == Spec /\ FairCalls /\ WF_vars(Resume)

-----------------------------------------------------------------------------
(* Properties *)

\* A founder sends an idea back at most _MAX_PIVOT_RETRIES times, however often
\* "rejected" is delivered (edges.route_after_validation_gate, nodes.pivot_rerun).
PivotBound == checkpoint.values.retry_count <= MaxPivotRetries

\* gate_decision stays in the state after a gate has used it; no pillar behind a
\* gate has an output unless that very gate was approved, whatever decisions were
\* left over from earlier gates, crashed calls or ended runs (graph.build_run_graph).
NoPillarWithoutApproval ==
    LET out == checkpoint.values.output
    IN  /\ out[2] # "none" => "validation_gate" \in signed
        /\ out[3] # "none" => "architecture_gate" \in signed
        /\ out[5] = "costly" /\ out[6] # "none" => "infra_spend_gate" \in signed
        /\ out[7] # "none" => "launch_gate" \in signed

\* The graph with one caller at a time keeps the promise of GatedPipeline.
Promise == INSTANCE GatedPipeline WITH
    MaxPivots <- MaxPivotRetries,
    done   <- {p \in Pillars : checkpoint.values.output[p] # "none"},
    signed <- signed,
    costly <- checkpoint.values.output[5] = "costly",
    pivots <- checkpoint.values.retry_count

ImplementsGatedPipeline == Promise!Spec

\* If the gates keep being answered, in any way at all, the run comes to its end:
\* no sequence of rejections, late decisions or crashes makes it loop for ever.
RunEnds == <>(call = "idle" /\ next_of(checkpoint) = "END")

=============================================================================
