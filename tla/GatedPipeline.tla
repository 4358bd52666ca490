--------------------------- MODULE GatedPipeline ---------------------------
(***************************************************************************)
(* What the pipeline promises a founder: pillar 2 starts after a signed    *)
(* validation gate, pillar 3 after a signed architecture gate, pillar 6    *)
(* after a signed spend gate when the deployment is over the threshold,    *)
(* pillar 7 after a signed launch gate; the pillars come in order, and     *)
(* the idea is pivoted a bounded number of times, before any building.     *)
(*                                                                         *)
(* The detailed specifications implement this one.                         *)
(***************************************************************************)
EXTENDS Naturals

CONSTANT MaxPivots

VARIABLES
    done,     \* the pillars whose output exists
    signed,   \* the gates a founder has approved
    costly,   \* is the deployment over the spend threshold?
    pivots    \* how often the idea was sent back

pipelineVars == <<done, signed, costly, pivots>>

Gates == {"validation_gate", "architecture_gate", "infra_spend_gate", "launch_gate"}

Init ==
    /\ done = {}
    /\ signed = {}
    /\ costly = FALSE
    /\ pivots = 0

\* What must hold before pillar p's output may appear.
MayWork(p) ==
    /\ p = 2 => "validation_gate" \in signed
    /\ p = 3 => 2 \in done /\ "architecture_gate" \in signed
    /\ p = 4 => 3 \in done
    /\ p = 5 => 4 \in done
    /\ p = 6 => 4 \in done /\ (costly => "infra_spend_gate" \in signed)
    /\ p = 7 => 6 \in done /\ "launch_gate" \in signed

Work(p) ==
    /\ MayWork(p)
    /\ done' = done \cup {p}
    /\ IF p = 5 THEN costly' \in BOOLEAN ELSE UNCHANGED costly
    /\ UNCHANGED <<signed, pivots>>

\* A founder is asked about work that exists.
MaySign(g) ==
    /\ g = "architecture_gate" => 2 \in done
    /\ g = "infra_spend_gate" => costly
    /\ g = "launch_gate" => 6 \in done

Sign(g) ==
    /\ MaySign(g)
    /\ signed' = signed \cup {g}
    /\ UNCHANGED <<done, costly, pivots>>

Pivot ==
    /\ 2 \notin done
    /\ pivots < MaxPivots
    /\ pivots' = pivots + 1
    /\ done' = done \ {1}
    /\ UNCHANGED <<signed, costly>>

Next ==
    \/ \E p \in 1..7 : Work(p)
    \/ \E g \in Gates : Sign(g)
    \/ Pivot

Spec == Init /\ [][Next]_pipelineVars

=============================================================================
