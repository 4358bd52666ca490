---------------------------- MODULE GuardedCalls ----------------------------
(***************************************************************************)
(* agents/base.py with guardrails/: the calls of one agent, each of which  *)
(* passes the guardrail pipeline before it reaches the circuit breaker.    *)
(* An LLM call passes the stages policy, input and instruction; a tool     *)
(* call the execution guard, which counts it against a rate limit.  After  *)
(* each stage its verdict is written to the lineage, with an await in      *)
(* which other calls go on.                                                *)
(*                                                                         *)
(* An agent has a breaker for its LLM calls and one for its tool calls;    *)
(* this is either of them, with all the calls through it.                  *)
(***************************************************************************)
EXTENDS CircuitBreaker

CONSTANT RateLimit    \* rate_limit_per_min of the tool that is called

ASSUME RateAssumption == RateLimit \in Nat \ {0}

VARIABLES
    kind,       \* are the calls LLM or tool calls?
    config,     \* the settings: production, guardrail_block_on_audit_failure, and
                \* whether aws_s3_audit_bucket names a bucket
    guard,      \* of each caller the stage its call is at, and that stage's verdict
    rate,       \* _RATE of the current minute
    recorded,   \* history: the callers with the policy verdict about their call in the bucket
    allowed     \* history: calls that the execution guard allowed in this minute

guardrails == <<kind, config, guard, rate, recorded, allowed>>
gvars == <<vars, guardrails>>

Stages == {"none", "policy", "input", "instruction", "execution", "passed"}

At(stage, verdict) == [stage |-> stage, verdict |-> verdict]
Verdicts == {"unknown", "allow", "deny"}

GTypeOK ==
    /\ TypeOK
    /\ kind \in {"llm", "tool"}
    /\ config \in [production : BOOLEAN, fail_closed : BOOLEAN, bucket : BOOLEAN]
    /\ guard \in [Callers -> [stage : Stages, verdict : Verdicts]]
    /\ \A c \in Callers : call[c] # "none" => guard[c] = At("none", "unknown")
    /\ rate \in 0..(RateLimit + 1)
    /\ recorded \subseteq Callers
    /\ allowed \in 0..RateLimit

GInit ==
    /\ Init
    /\ kind \in {"llm", "tool"}
    /\ config \in [production : BOOLEAN, fail_closed : BOOLEAN, bucket : BOOLEAN]
    /\ guard = [c \in Callers |-> At("none", "unknown")]
    /\ rate = 0
    /\ recorded = {}
    /\ allowed = 0

Goto(c, stage, verdict) == guard' = [guard EXCEPT ![c] = At(stage, verdict)]

-----------------------------------------------------------------------------
(* The pipeline *)

\* _call_llm and _call_tool, up to the pipeline's first check.
begin(c) ==
    /\ guard[c].stage = "none" /\ call[c] = "none"
    /\ Goto(c, IF kind = "llm" THEN "policy" ELSE "execution", "unknown")
    /\ recorded' = recorded \ {c}
    /\ UNCHANGED <<vars, kind, config, rate, allowed>>

\* OPA answers, or cannot be asked: then the stage denies in production only.
policy_check(c) ==
    /\ guard[c] = At("policy", "unknown")
    /\ \/ \E verdict \in {"allow", "deny"} : Goto(c, "policy", verdict)
       \/ Goto(c, "policy", IF config.production THEN "deny" ELSE "allow")
    /\ UNCHANGED <<vars, kind, config, rate, recorded, allowed>>

\* Redacted text and flags pass; injections and overrides do not.
content_check(c) ==
    /\ guard[c].stage \in {"input", "instruction"} /\ guard[c].verdict = "unknown"
    /\ \E verdict \in {"allow", "deny"} : Goto(c, guard[c].stage, verdict)
    /\ UNCHANGED <<vars, kind, config, rate, recorded, allowed>>

\* Mutant: the limit is compared with the calls before this one.
execution_check_late(c) ==
    /\ guard[c] = At("execution", "unknown")
    /\ \/ /\ Goto(c, "execution", "deny")
          /\ UNCHANGED <<rate, allowed>>
       \/ /\ rate' = IF rate <= RateLimit THEN rate + 1 ELSE rate
          /\ Goto(c, "execution", IF rate <= RateLimit THEN "allow" ELSE "deny")
          /\ allowed' = IF rate <= RateLimit THEN allowed + 1 ELSE allowed
    /\ UNCHANGED <<vars, kind, config, recorded>>

\* A tool that is unknown or not allowed, or arguments that do not fit, are denied
\* before they count; a call over the limit is denied and counts too.  No context that
\* an agent passes has a cost cap, so that the guard never gets to its cost check.
execution_check(c) ==
    /\ guard[c] = At("execution", "unknown")
    /\ \/ /\ Goto(c, "execution", "deny")
          /\ UNCHANGED <<rate, allowed>>
       \/ /\ rate' = IF rate <= RateLimit THEN rate + 1 ELSE rate
          /\ Goto(c, "execution", IF rate < RateLimit THEN "allow" ELSE "deny")
          /\ allowed' = IF rate < RateLimit THEN allowed + 1 ELSE allowed
    /\ UNCHANGED <<vars, kind, config, recorded>>

\* The next minute has a counter of its own.
next_minute ==
    /\ rate # 0
    /\ rate' = 0
    /\ allowed' = 0
    /\ UNCHANGED <<vars, kind, config, guard, recorded>>

\* emit_lineage: an agent's context has no session, so that the bucket is the only
\* durable store; the write may fail.
emit_lineage == IF config.bucket THEN BOOLEAN ELSE {FALSE}

\* Mutant: a store that fails is taken for one that is not configured.
audit_block_lenient(durable) ==
    ~durable /\ config.fail_closed /\ config.production /\ ~config.bucket

audit_block(durable) == ~durable /\ config.fail_closed /\ config.production

AfterStage == [policy |-> "input", input |-> "instruction",
               instruction |-> "passed", execution |-> "passed"]

\* Only the policy stage looks at what became of its record.
Blocks(c, durable) ==
    \/ guard[c].verdict = "deny"
    \/ guard[c].stage = "policy" /\ audit_block(durable)

\* Mutant: a denied call counts as a failure.
record_counted(c) ==
    /\ guard[c].verdict # "unknown"
    /\ Goto(c, IF guard[c].verdict = "deny" THEN "none" ELSE AfterStage[guard[c].stage],
            "unknown")
    /\ failures' = IF guard[c].verdict = "deny" THEN Counted(failures) ELSE failures
    /\ state' = IF failures' = FailureThreshold THEN "open" ELSE state
    /\ recorded' = recorded \cup {c}
    /\ UNCHANGED <<cooled, call, healthy, streak, kind, config, rate, allowed>>

record(c) ==
    /\ guard[c].verdict # "unknown"
    /\ \E durable \in emit_lineage :
           /\ IF Blocks(c, durable)
              THEN Goto(c, "none", "unknown")
              ELSE Goto(c, AfterStage[guard[c].stage], "unknown")
           /\ recorded' = IF durable /\ guard[c].stage = "policy"
                          THEN recorded \cup {c} ELSE recorded
    /\ UNCHANGED <<vars, kind, config, rate, allowed>>

-----------------------------------------------------------------------------
(* The call *)

\* The verdict is in: the call goes to the breaker, which admits or rejects it.
admitted(c) ==
    /\ guard[c].stage = "passed"
    /\ admit(c)
    /\ Goto(c, "none", "unknown")
    /\ UNCHANGED <<kind, config, rate, recorded, allowed>>

rejected(c) ==
    /\ guard[c].stage = "passed"
    /\ state = "open" /\ ~cooled
    /\ Goto(c, "none", "unknown")
    /\ UNCHANGED <<vars, kind, config, rate, recorded, allowed>>

\* The SLA may cancel a call at any await before it, too.
cancelled(c) ==
    /\ guard[c].stage # "none"
    /\ Goto(c, "none", "unknown")
    /\ UNCHANGED <<vars, kind, config, rate, recorded, allowed>>

Guard(c) == policy_check(c) \/ content_check(c) \/ execution_check(c) \/ record(c)

GNext ==
    \/ \E c \in Callers :
           \/ begin(c) \/ Guard(c) \/ admitted(c) \/ rejected(c) \/ cancelled(c)
           \/ Outcome(c) /\ UNCHANGED guardrails
    \/ (reset_timeout \/ recover) /\ UNCHANGED guardrails
    \/ next_minute

GSpec == GInit /\ [][GNext]_gvars

\* Calls that have passed the guard are made, each has its outcome, and time passes; a
\* provider need not recover, and the guard need not let any call pass.
GFairSpec ==
    /\ GSpec
    /\ SF_gvars(\E c \in Callers : admitted(c))
    /\ \A c \in Callers : WF_gvars(Outcome(c) /\ UNCHANGED guardrails)
    /\ WF_gvars(reset_timeout /\ UNCHANGED guardrails)

-----------------------------------------------------------------------------
(* Properties; OpensAfterThreshold of CircuitBreaker is one of this module, too: what   *)
(* the guard denies is not held against the provider.                                  *)

\* In production, with guardrail_block_on_audit_failure, no LLM call gets past the
\* policy stage, and none reaches the provider, unless the verdict about it is in the
\* bucket: not when the bucket fails, and not when there is none (_audit_block).
LLMCallsAreAudited ==
    kind = "llm" /\ config.production /\ config.fail_closed =>
        \A c \in Callers :
            call[c] # "none" \/ guard[c].stage \in {"input", "instruction", "passed"} =>
                c \in recorded

\* As long as the guard lets calls pass now and then, a provider that has recovered is
\* called again and for good, whatever the guard denies and whichever calls are
\* cancelled on their way (_call_llm, _call_tool, CircuitBreaker.call).
RecoversBehindGuard ==
    []<>(\E c \in Callers : guard[c].stage = "passed") => Recovers

=============================================================================
