-------------------------------- MODULE Agents --------------------------------
(***************************************************************************)
(* A run of any one of the agents of app/agents that this model has as     *)
(* supersteps of nodes.  Each keeps its own state in st.                   *)
(***************************************************************************)
EXTENDS Naturals, Sequences

CONSTANTS
    RecursionLimit,  \* supersteps that LangGraph allows a run
    MaxRetries,      \* RetryPolicy.max_retries of the strategist
    Inputs,          \* the sequences of traces that LLMOps analyses
    NoCoverage       \* coverage_score of a trace that has none

ASSUME LimitsAssumption == RecursionLimit \in Nat \ {0} /\ MaxRetries \in Nat

ASSUME InputsAssumption ==
    Inputs \subseteq
        Seq([agent_id : STRING, organization_id : STRING, tokens_used : Nat,
             verify_passed : BOOLEAN, coverage_score : Nat \cup {NoCoverage},
             timestamp : Nat])

VARIABLES agent, status, steps, next, done, read, st

agentVars == <<agent, status, steps, next, done, read, st>>

architect  == INSTANCE Architect WITH ArchitectLimit <- RecursionLimit
strategy   == INSTANCE Strategist WITH StrategistLimit <- RecursionLimit
marketing  == INSTANCE Marketing WITH MarketingLimit <- RecursionLimit
research   == INSTANCE Research WITH ResearchLimit <- RecursionLimit
planner    == INSTANCE Planner WITH PlannerLimit <- RecursionLimit
coder      == INSTANCE Coder WITH CoderLimit <- RecursionLimit
llmops     == INSTANCE LLMOps WITH LLMOpsLimit <- RecursionLimit

AgentsInit ==
    \/ agent = "architect" /\ architect!Init
    \/ agent = "strategy"  /\ strategy!Init
    \/ agent = "marketing" /\ marketing!Init
    \/ agent = "research"  /\ research!Init
    \/ agent = "planner"   /\ planner!Init
    \/ agent = "coder"     /\ coder!Init
    \/ agent = "llmops"    /\ llmops!Init

AgentsNext ==
    /\ \/ agent = "architect" /\ architect!Next
       \/ agent = "strategy"  /\ strategy!Next
       \/ agent = "marketing" /\ marketing!Next
       \/ agent = "research"  /\ research!Next
       \/ agent = "planner"   /\ planner!Next
       \/ agent = "coder"     /\ coder!Next
       \/ agent = "llmops"    /\ llmops!Next
    /\ UNCHANGED agent

AgentsSpec == AgentsInit /\ [][AgentsNext]_agentVars

-----------------------------------------------------------------------------

\* Each agent's state has its type, and a superstep's nodes have returned before the
\* next one begins.
AgentsTypeOK ==
    /\ status \in {"running", "ended", "returned", "failed"}
    /\ steps \in 1..RecursionLimit
    /\ done \subseteq next
    /\ status # "running" => next = {}
    /\ CASE agent = "architect" -> architect!TypeOK
         [] agent = "strategy"  -> strategy!TypeOK
         [] agent = "marketing" -> marketing!TypeOK
         [] agent = "research"  -> research!TypeOK
         [] agent = "planner"   -> planner!TypeOK
         [] agent = "coder"     -> coder!TypeOK
         [] agent = "llmops"    -> llmops!TypeOK

\* The design at the architect's gate is of one stack: see Architect.
DesignIsOfOneStack == agent = "architect" => architect!DesignIsOfOneStack

\* A strategy package rests on its research: see Strategist.
PackageRestsOnResearch == agent = "strategy" => strategy!PackageRestsOnResearch

\* What marketing schedules was audited and approved: see Marketing.
PublishedIsChecked == agent = "marketing" => marketing!PublishedIsChecked

\* Research findings have the score they are returned with: see Research.
ScoreIsOfTheFindings == agent = "research" => research!ScoreIsOfTheFindings

\* LLMOps reports on its traces whatever order they came in: see LLMOps.
ReportIsOfTheTraces == agent = "llmops" => llmops!ReportIsOfTheTraces

=============================================================================
