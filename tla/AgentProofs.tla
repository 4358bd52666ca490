---------------------------- MODULE AgentProofs ----------------------------
(***************************************************************************)
(* The circuit breaker alone, and the calls behind the guardrails, for any *)
(* number of callers, any threshold of the breaker and any rate limit: the *)
(* calls drive the breaker as CircuitBreaker says, so that its theorems    *)
(* hold of them too, and the guard's own promises hold.                    *)
(*                                                                         *)
(* The runs of the agents, for any limit of supersteps, any number of      *)
(* retries and any traces.  A superstep's nodes return in any order, so    *)
(* each agent's invariant says what is known in a layer of its graph when  *)
(* some of the layer's nodes have returned.                                *)
(***************************************************************************)
EXTENDS GuardedCalls, Agents, FiniteSetTheorems, WellFoundedInduction, TLAPS

-----------------------------------------------------------------------------
(* The breaker alone *)

\* A closed breaker counts exactly the failures since the last success, and has not
\* counted enough of them to open.
CountsTheStreak == state = "closed" => failures = streak /\ failures < FailureThreshold

IInv == TypeOK /\ CountsTheStreak

\* The initial state satisfies the invariant.
LEMMA InitialState == Init => IInv
  BY ThresholdAssumption DEF Init, IInv, TypeOK, CountsTheStreak

\* Counting stops at the threshold.
LEMMA CountedIsBounded ==
    ASSUME NEW n \in 0..FailureThreshold
    PROVE  /\ Counted(n) \in 0..FailureThreshold
           /\ n < FailureThreshold => Counted(n) = n + 1
  BY ThresholdAssumption DEF Counted

\* A call of one caller keeps the types of all.
LEMMA CallIsTyped ==
    ASSUME TypeOK, NEW c \in Callers, NEW v \in {"none", "may_fail", "will_succeed"},
           call' = [call EXCEPT ![c] = v]
    PROVE  call' \in [Callers -> {"none", "may_fail", "will_succeed"}]
  BY DEF TypeOK

\* An admission counts nothing, and closes nothing.
LEMMA AdmitStep == ASSUME IInv, NEW c \in Callers, admit(c) PROVE IInv'
  <1> USE DEF admit
  <1>1. call' \in [Callers -> {"none", "may_fail", "will_succeed"}]
    BY CallIsTyped DEF IInv
  <1>2. TypeOK' BY <1>1 DEF IInv, TypeOK
  <1>3. CountsTheStreak' BY DEF IInv, CountsTheStreak
  <1> QED BY <1>2, <1>3 DEF IInv

\* A success clears both counts, unless the breaker is and stays open.
LEMMA SucceedStep == ASSUME IInv, NEW c \in Callers, succeed(c) PROVE IInv'
  <1> USE DEF succeed
  <1>1. call' \in [Callers -> {"none", "may_fail", "will_succeed"}]
    BY CallIsTyped DEF IInv
  <1>2. TypeOK' BY <1>1, ThresholdAssumption DEF IInv, TypeOK
  <1>3. CountsTheStreak' BY ThresholdAssumption DEF IInv, TypeOK, CountsTheStreak
  <1> QED BY <1>2, <1>3 DEF IInv

\* A failure counts once in both, and what reaches the threshold opens the breaker.
LEMMA FailStep == ASSUME IInv, NEW c \in Callers, fail(c) PROVE IInv'
  <1> USE DEF fail
  <1>1. call' \in [Callers -> {"none", "may_fail", "will_succeed"}]
    BY CallIsTyped DEF IInv
  <1>2. failures \in 0..FailureThreshold /\ streak \in 0..FailureThreshold
    BY DEF IInv, TypeOK
  <1>3. failures' \in 0..FailureThreshold /\ streak' \in 0..FailureThreshold
    BY <1>2, CountedIsBounded
  <1>4. TypeOK' BY <1>1, <1>3 DEF IInv, TypeOK
  <1>5. CountsTheStreak'
    <2> SUFFICES ASSUME state' = "closed"
                 PROVE  failures' = streak' /\ failures' < FailureThreshold
      BY DEF CountsTheStreak
    <2>1. state = "closed" /\ failures' # FailureThreshold BY DEF IInv, TypeOK
    <2>2. failures = streak BY <2>1 DEF IInv, CountsTheStreak
    <2> QED BY <1>3, <2>1, <2>2, ThresholdAssumption
  <1> QED BY <1>4, <1>5 DEF IInv

\* A cancelled call, the passing of time and the provider touch no count.
LEMMA QuietStep ==
    ASSUME IInv, (\E c \in Callers : cancel(c)) \/ reset_timeout \/ recover
    PROVE  IInv'
  <1>1. CASE \E c \in Callers : cancel(c)
    <2> PICK c \in Callers : cancel(c) BY <1>1
    <2>1. call' \in [Callers -> {"none", "may_fail", "will_succeed"}]
      BY CallIsTyped DEF IInv, cancel
    <2> QED BY <2>1 DEF cancel, IInv, TypeOK, CountsTheStreak
  <1>2. CASE reset_timeout \/ recover
    BY <1>2 DEF reset_timeout, recover, IInv, TypeOK, CountsTheStreak
  <1> QED BY <1>1, <1>2

\* Every step keeps the invariant.
LEMMA NextStep == IInv /\ [Next]_vars => IInv'
  <1> SUFFICES ASSUME IInv, [Next]_vars PROVE IInv' OBVIOUS
  <1>1. CASE UNCHANGED vars BY <1>1 DEF vars, IInv, TypeOK, CountsTheStreak
  <1>2. CASE \E c \in Callers : admit(c) BY <1>2, AdmitStep
  <1>3. CASE \E c \in Callers : succeed(c) BY <1>3, SucceedStep
  <1>4. CASE \E c \in Callers : fail(c) BY <1>4, FailStep
  <1>5. CASE (\E c \in Callers : cancel(c)) \/ reset_timeout \/ recover BY <1>5, QuietStep
  <1> QED BY <1>1, <1>2, <1>3, <1>4, <1>5 DEF Next, Outcome

\* The invariant holds in every reachable state.
LEMMA Invariance == Spec => []IInv
  BY InitialState, NextStep, PTL DEF Spec

\* Type correctness, for any callers and threshold (CircuitBreaker).
THEOREM TypeCorrect == Spec => []TypeOK
  <1>1. IInv => TypeOK BY DEF IInv
  <1> QED BY <1>1, Invariance, PTL

\* A closed breaker opens only after FailureThreshold failures with no success between
\* them, for any number of calls in flight (CircuitBreaker.call).
THEOREM BreakerOpensAfterThreshold == Spec => OpensAfterThreshold
  <1> DEFINE Opens == state = "closed" /\ state' = "open"
  <1>1. IInv /\ [Next]_vars => [Opens => streak' = FailureThreshold]_vars
    <2> SUFFICES ASSUME IInv, Next, Opens PROVE streak' = FailureThreshold
      OBVIOUS
    <2>1. PICK c \in Callers : fail(c)
      BY DEF Next, Outcome, admit, succeed, cancel, reset_timeout, recover
    <2>2. failures' = FailureThreshold BY <2>1 DEF fail
    <2>3. failures = streak BY DEF IInv, CountsTheStreak
    <2> QED BY <2>1, <2>2, <2>3 DEF fail
  <1> QED BY <1>1, Invariance, PTL DEF Spec, OpensAfterThreshold

-----------------------------------------------------------------------------
(* The calls behind the guard *)

GuardStates == [stage : Stages, verdict : Verdicts]

\* The calls that were allowed this minute are among those that were counted.
AllowedIsCounted == allowed <= rate

\* No LLM call meets the execution guard, whose record nobody waits for.
StagesOfLLM == kind = "llm" => \A c \in Callers : guard[c].stage # "execution"

\* A verdict is one of the four stages'.
Checks == {"policy", "input", "instruction", "execution"}
VerdictsHaveStages ==
    \A c \in Callers : guard[c].verdict # "unknown" => guard[c].stage \in Checks

GInv ==
    /\ IInv
    /\ GTypeOK
    /\ AllowedIsCounted
    /\ StagesOfLLM
    /\ VerdictsHaveStages
    /\ LLMCallsAreAudited

-----------------------------------------------------------------------------

\* The initial state satisfies the invariant.
LEMMA GInitialState == GInit => GInv
  <1> SUFFICES ASSUME GInit PROVE GInv OBVIOUS
  <1>1. TypeOK
    BY InitialState DEF GInit, IInv
  <1>2. GTypeOK
    BY <1>1, RateAssumption DEF GInit, GTypeOK, At, Stages, Verdicts
  <1>3. AllowedIsCounted /\ StagesOfLLM /\ VerdictsHaveStages /\ LLMCallsAreAudited
    BY DEF GInit, Init, AllowedIsCounted, StagesOfLLM, VerdictsHaveStages,
           LLMCallsAreAudited, At
  <1>4. IInv
    BY InitialState DEF GInit
  <1> QED BY <1>2, <1>3, <1>4 DEF GInv

\* A step of the guard leaves the breaker alone, and any other is one of the breaker's.
LEMMA StepsOfTheBreaker == [GNext]_gvars => [Next]_vars
  BY DEF GNext, gvars, Guard, begin, policy_check, content_check, execution_check, record,
         admitted, rejected, cancelled, next_minute, Next, Outcome

\* Moving one call keeps the types of all.
LEMMA GuardIsTyped ==
    ASSUME GTypeOK, NEW c \in Callers, NEW s \in Stages, NEW v \in Verdicts, Goto(c, s, v)
    PROVE  /\ guard' \in [Callers -> GuardStates]
           /\ guard'[c] = At(s, v)
           /\ \A d \in Callers \ {c} : guard'[d] = guard[d]
  <1>1. At(s, v) \in GuardStates BY DEF At, GuardStates
  <1>2. guard \in [Callers -> GuardStates] BY DEF GTypeOK, GuardStates
  <1> QED BY <1>1, <1>2 DEF Goto

\* A step of the guard with one call, which the breaker does not know of yet.
LEMMA GuardStep ==
    ASSUME GInv, IInv', NEW c \in Callers, NEW s \in Stages, NEW v \in Verdicts,
           Goto(c, s, v), call[c] = "none", UNCHANGED <<call, kind, config>>,
           rate' \in 0..(RateLimit + 1), allowed' \in 0..RateLimit, allowed' <= rate',
           recorded' \subseteq Callers, recorded \ {c} \subseteq recorded',
           kind = "llm" => s # "execution", v # "unknown" => s \in Checks,
           kind = "llm" /\ config.production /\ config.fail_closed
               /\ s \in {"input", "instruction", "passed"} => c \in recorded'
    PROVE  GInv'
  <1>1. /\ guard' \in [Callers -> GuardStates]
        /\ guard'[c].stage = s /\ guard'[c].verdict = v
        /\ \A d \in Callers \ {c} : guard'[d] = guard[d]
    <2>1. /\ guard' \in [Callers -> GuardStates]
          /\ guard'[c] = At(s, v)
          /\ \A d \in Callers \ {c} : guard'[d] = guard[d]
      BY GuardIsTyped DEF GInv
    <2> QED BY <2>1 DEF At
  <1>2. GTypeOK'
    <2>1. TypeOK' BY DEF IInv
    <2>2. \A d \in Callers : call'[d] # "none" => guard'[d] = At("none", "unknown")
      BY <1>1 DEF GInv, GTypeOK
    <2> QED BY <1>1, <2>1, <2>2 DEF GInv, GTypeOK, GuardStates
  <1>3. StagesOfLLM'
    BY <1>1 DEF GInv, StagesOfLLM
  <1>4. LLMCallsAreAudited'
    BY <1>1 DEF GInv, LLMCallsAreAudited
  <1>5. VerdictsHaveStages'
    BY <1>1 DEF GInv, VerdictsHaveStages
  <1> QED BY <1>2, <1>3, <1>4, <1>5 DEF GInv, AllowedIsCounted

\* A call that is at a stage is not with the breaker, and its verdict is one.
LEMMA AtTheGuard ==
    ASSUME GInv, NEW c \in Callers
    PROVE  /\ guard[c] \in GuardStates
           /\ guard[c].stage # "none" => call[c] = "none"
           /\ rate \in 0..(RateLimit + 1) /\ allowed \in 0..RateLimit /\ allowed <= rate
           /\ recorded \subseteq Callers
  BY DEF GInv, GTypeOK, GuardStates, At, AllowedIsCounted

\* A call enters the pipeline with no record of its own.
LEMMA BeginStep == ASSUME GInv, IInv', NEW c \in Callers, begin(c) PROVE GInv'
  <1>1. kind \in {"llm", "tool"} BY DEF GInv, GTypeOK
  <1>2. CASE kind = "llm"
    <2>1. Goto(c, "policy", "unknown") BY <1>2 DEF begin
    <2> QED BY <2>1, AtTheGuard, GuardStep DEF Checks, begin, Stages, Verdicts, vars
  <1>3. CASE kind = "tool"
    <2>1. Goto(c, "execution", "unknown") BY <1>3 DEF begin
    <2> QED BY <1>3, <2>1, AtTheGuard, GuardStep DEF Checks, begin, Stages, Verdicts, vars
  <1> QED BY <1>1, <1>2, <1>3

\* A verdict of the policy or a content stage moves nothing else.
LEMMA CheckStep ==
    ASSUME GInv, IInv', NEW c \in Callers, policy_check(c) \/ content_check(c)
    PROVE  GInv'
  <1>1. PICK v \in Verdicts : Goto(c, guard[c].stage, v)
    BY DEF policy_check, content_check, Verdicts, At
  <1>2. guard[c].stage \in {"policy", "input", "instruction"}
    BY DEF policy_check, content_check, At
  <1>3. UNCHANGED <<vars, kind, config, rate, recorded, allowed>>
    BY DEF policy_check, content_check
  <1>4. kind = "llm" /\ config.production /\ config.fail_closed
            /\ guard[c].stage \in {"input", "instruction", "passed"} => c \in recorded'
    BY <1>3 DEF GInv, LLMCallsAreAudited
  <1> QED BY <1>1, <1>2, <1>3, <1>4, AtTheGuard, GuardStep DEF Checks, Stages, vars

\* The execution guard allows no more calls than it counts, and sees tool calls only.
LEMMA ExecutionStep == ASSUME GInv, IInv', NEW c \in Callers, execution_check(c) PROVE GInv'
  <1>1. PICK v \in Verdicts : Goto(c, "execution", v)
    BY DEF execution_check, Verdicts
  <1>2. guard[c].stage = "execution" /\ kind # "llm"
    BY DEF execution_check, At, GInv, StagesOfLLM
  <1>3. /\ rate' \in 0..(RateLimit + 1) /\ allowed' \in 0..RateLimit /\ allowed' <= rate'
        /\ UNCHANGED <<vars, kind, config, recorded>>
    BY AtTheGuard, RateAssumption DEF execution_check
  <1> QED BY <1>1, <1>2, <1>3, AtTheGuard, GuardStep DEF Checks, Stages, vars

\* What passes the policy stage in production, with the audit required, is recorded.
LEMMA RecordStep == ASSUME GInv, IInv', NEW c \in Callers, record(c) PROVE GInv'
  <1>1. PICK durable \in emit_lineage :
            /\ IF Blocks(c, durable)
               THEN Goto(c, "none", "unknown")
               ELSE Goto(c, AfterStage[guard[c].stage], "unknown")
            /\ recorded' = IF durable /\ guard[c].stage = "policy"
                           THEN recorded \cup {c} ELSE recorded
    BY DEF record
  <1>2. UNCHANGED <<vars, kind, config, rate, allowed>> /\ durable \in BOOLEAN
    BY DEF record, emit_lineage
  <1>3. recorded \subseteq recorded' /\ recorded' \subseteq Callers
    BY <1>1, AtTheGuard
  <1>4. CASE Blocks(c, durable)
    <2>1. call[c] = "none"
      BY AtTheGuard DEF record, GInv, GTypeOK, At
    <2> QED BY <1>1, <1>2, <1>3, <1>4, <2>1, AtTheGuard, GuardStep
            DEF Checks, Stages, Verdicts, vars
  <1>5. CASE ~Blocks(c, durable)
    <2> DEFINE s == AfterStage[guard[c].stage]
    <2>1. Goto(c, s, "unknown") BY <1>1, <1>5
    <2>2. guard[c].stage \in Checks /\ call[c] = "none"
      BY AtTheGuard DEF record, At, GInv, GTypeOK, VerdictsHaveStages, Checks
    <2>3. s \in {"input", "instruction", "passed"}
      BY <2>2 DEF Checks, AfterStage
    <2>4. kind = "llm" /\ config.production /\ config.fail_closed => c \in recorded'
      <3> SUFFICES ASSUME kind = "llm", config.production, config.fail_closed
                   PROVE  c \in recorded'
        OBVIOUS
      <3>1. CASE guard[c].stage = "policy"
        BY <1>1, <1>2, <1>5, <3>1 DEF Blocks, audit_block
      <3>2. CASE guard[c].stage \in {"input", "instruction"}
        BY <1>3, <3>2 DEF GInv, LLMCallsAreAudited
      <3> QED BY <2>2, <3>1, <3>2 DEF Checks, GInv, StagesOfLLM
    <2> HIDE DEF s
    <2> QED BY <1>2, <1>3, <2>1, <2>2, <2>3, <2>4, AtTheGuard, GuardStep
            DEF Stages, Verdicts, vars
  <1> QED BY <1>4, <1>5

\* A call on its way that is cancelled, or rejected by the breaker.
LEMMA LeaveStep ==
    ASSUME GInv, IInv', NEW c \in Callers, cancelled(c) \/ rejected(c)
    PROVE  GInv'
  <1>1. Goto(c, "none", "unknown") /\ guard[c].stage # "none"
    BY DEF cancelled, rejected
  <1>2. UNCHANGED <<vars, kind, config, rate, recorded, allowed>>
    BY DEF cancelled, rejected
  <1> QED BY <1>1, <1>2, AtTheGuard, GuardStep DEF Checks, Stages, Verdicts, vars

\* The call that reaches the breaker has its record.
LEMMA AdmittedStep == ASSUME GInv, IInv', NEW c \in Callers, admitted(c) PROVE GInv'
  <1>1. /\ guard' \in [Callers -> GuardStates]
        /\ guard'[c] = At("none", "unknown")
        /\ \A d \in Callers \ {c} : guard'[d] = guard[d]
    <2>1. Goto(c, "none", "unknown") BY DEF admitted
    <2> QED BY <2>1, GuardIsTyped DEF GInv, Stages, Verdicts
  <1>2. \A d \in Callers \ {c} : call'[d] = call[d]
    BY DEF admitted, admit, GInv, IInv, TypeOK
  <1>3. UNCHANGED <<kind, config, rate, recorded, allowed>> BY DEF admitted
  <1>4. GTypeOK'
    <2>1. TypeOK' BY DEF IInv
    <2>2. \A d \in Callers : call'[d] # "none" => guard'[d] = At("none", "unknown")
      BY <1>1, <1>2 DEF GInv, GTypeOK
    <2> QED BY <1>1, <1>3, <2>1, <2>2 DEF GInv, GTypeOK, GuardStates
  <1>5. StagesOfLLM' /\ VerdictsHaveStages'
    BY <1>1, <1>3 DEF GInv, StagesOfLLM, VerdictsHaveStages, At
  <1>6. LLMCallsAreAudited'
    BY <1>1, <1>2, <1>3 DEF GInv, LLMCallsAreAudited, admitted, At
  <1> QED BY <1>3, <1>4, <1>5, <1>6 DEF GInv, AllowedIsCounted

\* The breaker's own steps, in which no call begins.
LEMMA BreakerStep ==
    ASSUME GInv, IInv', UNCHANGED guardrails,
           (\E c \in Callers : Outcome(c)) \/ reset_timeout \/ recover
    PROVE  GInv'
  <1>1. \A d \in Callers : call'[d] # "none" => call[d] # "none"
    BY DEF Outcome, succeed, fail, cancel, reset_timeout, recover, GInv, IInv, TypeOK
  <1>2. GTypeOK'
    BY <1>1 DEF GInv, IInv, GTypeOK, guardrails
  <1>3. LLMCallsAreAudited'
    BY <1>1 DEF GInv, LLMCallsAreAudited, guardrails
  <1> QED BY <1>2, <1>3
          DEF GInv, AllowedIsCounted, StagesOfLLM, VerdictsHaveStages, guardrails

\* Counting begins anew for both.
LEMMA MinuteStep == ASSUME GInv, IInv', next_minute PROVE GInv'
  BY RateAssumption
     DEF next_minute, vars, GInv, IInv, GTypeOK, AllowedIsCounted, StagesOfLLM,
         VerdictsHaveStages, LLMCallsAreAudited

\* Every step keeps the invariant.
LEMMA GNextStep == GInv /\ [GNext]_gvars => GInv'
  <1> SUFFICES ASSUME GInv, [GNext]_gvars PROVE GInv' OBVIOUS
  <1>1. IInv' BY StepsOfTheBreaker, NextStep DEF GInv
  <1>2. CASE UNCHANGED gvars
    BY <1>1, <1>2
       DEF gvars, guardrails, vars, GInv, IInv, GTypeOK, AllowedIsCounted, StagesOfLLM,
           VerdictsHaveStages, LLMCallsAreAudited
  <1>3. ASSUME NEW c \in Callers, begin(c) \/ Guard(c) PROVE GInv'
    BY <1>1, <1>3, BeginStep, CheckStep, ExecutionStep, RecordStep DEF Guard
  <1>4. ASSUME NEW c \in Callers, admitted(c) \/ rejected(c) \/ cancelled(c) PROVE GInv'
    BY <1>1, <1>4, AdmittedStep, LeaveStep
  <1>5. ASSUME NEW c \in Callers, Outcome(c) /\ UNCHANGED guardrails PROVE GInv'
    BY <1>1, <1>5, BreakerStep
  <1>6. CASE (reset_timeout \/ recover) /\ UNCHANGED guardrails
    BY <1>1, <1>6, BreakerStep
  <1>7. CASE next_minute
    BY <1>1, <1>7, MinuteStep
  <1> QED BY <1>2, <1>3, <1>4, <1>5, <1>6, <1>7 DEF GNext

\* The invariant holds in every reachable state.
LEMMA GInvariance == GSpec => []GInv
  BY GInitialState, GNextStep, PTL DEF GSpec

-----------------------------------------------------------------------------
(* The theorems about calls *)

\* The breaker of an agent whose calls are guarded is a CircuitBreaker: nothing the
\* pipeline does shows in it but which calls are made (_call_llm, _call_tool).
THEOREM GuardRefinesBreaker == GSpec => Spec
  <1>1. GInit => Init BY DEF GInit
  <1> QED BY <1>1, StepsOfTheBreaker, PTL DEF GSpec, Spec

\* Type correctness; with it, no more tool calls pass in a minute than the tool's
\* limit, for any number of concurrent callers (ExecutionGuardStage).
THEOREM GTypeCorrect == GSpec => []GTypeOK
  <1>1. GInv => GTypeOK BY DEF GInv
  <1> QED BY <1>1, GInvariance, PTL

\* Every LLM call that gets past the policy stage is recorded where production demands
\* it (_audit_block), for any number of concurrent callers.
THEOREM CallsAreAudited == GSpec => []LLMCallsAreAudited
  <1>1. GInv => LLMCallsAreAudited BY DEF GInv
  <1> QED BY <1>1, GInvariance, PTL

\* Denied, rejected and cancelled calls open no breaker: behind the guard, too, it takes
\* FailureThreshold failures in a row (CircuitBreaker.call).
THEOREM GuardedBreakerOpensAfterThreshold == GSpec => OpensAfterThreshold
  BY GuardRefinesBreaker, BreakerOpensAfterThreshold, PTL

-----------------------------------------------------------------------------
(* The runs of the agents: what a step may be, whatever the nodes *)

\* Node n returns.
Returning(n) ==
    /\ status = "running" /\ n \in next \ done
    /\ done' = done \cup {n}
    /\ UNCHANGED <<status, steps, next, read>>

\* The run ends, or fails, for good.
Stopping(following) ==
    /\ status = "running" /\ status' \in {"ended", "failed"}
    /\ status' = "ended" => done = next /\ following = {}
    /\ next' = {} /\ done' = {}
    /\ UNCHANGED <<steps, read, st>>

\* The next superstep, of nodes, begins.
Following(nodes) ==
    /\ status = "running" /\ done = next /\ nodes # {}
    /\ steps < RecursionLimit
    /\ steps' = steps + 1 /\ next' = nodes /\ done' = {} /\ read' = st
    /\ UNCHANGED <<status, st>>

\* verify judges what a run that ended has.
Verifying ==
    /\ status = "ended" /\ status' \in {"returned", "failed"}
    /\ UNCHANGED <<steps, next, done, read>>

\* What all agents' types have in common.
RunTypes ==
    /\ status \in {"running", "ended", "returned", "failed"}
    /\ steps \in 1..RecursionLimit
    /\ done \subseteq next
    /\ status = "running" <=> next # {}

\* No step of a run, whatever the agent, disturbs what the types have in common.
LEMMA RunTypesKept ==
    ASSUME RunTypes, NEW following,
           \/ \E n \in next : Returning(n)
           \/ Stopping(following)
           \/ Following(following)
           \/ Verifying
           \/ UNCHANGED <<status, steps, next, done, read>>
    PROVE  RunTypes'
  <1> USE LimitsAssumption DEF RunTypes
  <1>1. CASE \E n \in next : Returning(n) BY <1>1 DEF Returning
  <1>2. CASE Stopping(following) BY <1>2 DEF Stopping
  <1>3. CASE Following(following) BY <1>3 DEF Following
  <1>4. CASE Verifying BY <1>4 DEF Verifying
  <1>5. CASE UNCHANGED <<status, steps, next, done, read>> BY <1>5
  <1> QED BY <1>1, <1>2, <1>3, <1>4, <1>5

-----------------------------------------------------------------------------
(* The strategist *)

StrategyResearch == {"size_market", "discover_competitors", "mine_keywords",
                     "generate_personas", "analyze_trends"}

\* What a run knows of before its superstep at n.
StrategyPast(n) ==
    CASE n = "normalize_idea" -> {}
      [] n \in StrategyResearch -> {"normalize_idea"}
      [] n \in {"parallel_join", "audit_bias"} -> {"normalize_idea"} \cup StrategyResearch
      [] n = "synthesize_canvas" -> {"normalize_idea", "audit_bias"} \cup StrategyResearch
      [] n = "score_viability" ->
            {"normalize_idea", "audit_bias", "synthesize_canvas"} \cup StrategyResearch
      [] n = "render_report" ->
            {"normalize_idea", "audit_bias", "synthesize_canvas", "score_viability"}
                \cup StrategyResearch
      [] n = "error_handler" -> strategy!Retried

\* The supersteps there are.
StrategyLayers ==
    {{}, {"normalize_idea"}, StrategyResearch} \cup
    {{n} : n \in {"parallel_join", "audit_bias", "synthesize_canvas", "score_viability",
                  "render_report", "error_handler"}}

\* The parts before the join.
Early == StrategyResearch \cup {"normalize_idea"}

\* The nodes behind the join, but for the error handler.
AfterJoin == {"audit_bias", "synthesize_canvas", "score_viability", "render_report"}

StrategyState ==
    [produced : SUBSET strategy!Retried, failed : SUBSET strategy!Retried,
     error_count : Nat, fatal_error : BOOLEAN]

\* A node has produced or failed what it is asked for, and what is before it; past the join
\* fewer of the early parts failed than would have ended the run.
StrategyInv ==
    /\ RunTypes
    /\ st \in StrategyState
    /\ strategy!TypeOK
    /\ next \in StrategyLayers
    /\ \A n \in next : st.produced \cup st.failed \subseteq StrategyPast(n) \cup done
    /\ next \cap AfterJoin # {} \/ "render_report" \in st.produced
          => Cardinality(st.failed \cap Early) < MaxRetries
    /\ status = "returned" => strategy!Synthesis \subseteq st.produced

\* Every step of the strategist is one that any run may make.
LEMMA StrategyMoves ==
    ASSUME strategy!Next
    PROVE  \/ \E n \in next : Returning(n) /\ st' \in strategy!Returns(n, read, st)
           \/ Stopping(strategy!Graph!Following)
           \/ Following(strategy!Graph!Following)
           \/ Verifying /\ strategy!verify
  BY LimitsAssumption
  DEF strategy!Next, strategy!Graph!Step, strategy!Graph!superstep,
     strategy!Graph!limit_reached, strategy!Graph!end_reached,
     strategy!Graph!node_returns, strategy!Graph!node_raises, strategy!Graph!abandoned,
     strategy!Graph!Stop, strategy!verify, Returning, Stopping, Following, Verifying

\* The strategist counts as the library does.
LEMMA SameCardinality == \A S : strategy!Cardinality(S) = Cardinality(S)
  BY DEF strategy!Cardinality, Cardinality

\* The nodes that are retried are finitely many.
LEMMA RetriedIsFinite == IsFiniteSet(strategy!Retried)
  <1> DEFINE A == {"normalize_idea", "size_market", "discover_competitors"}
             B == {"mine_keywords", "generate_personas", "analyze_trends"}
             C == {"synthesize_canvas", "score_viability", "render_report"}
  <1>1. \A x, y, z : IsFiniteSet({x, y, z})
    <2> TAKE x, y, z
    <2>1. IsFiniteSet({x}) BY FS_Singleton
    <2>2. IsFiniteSet({x} \cup {y}) BY <2>1, FS_AddElement
    <2>3. IsFiniteSet(({x} \cup {y}) \cup {z}) BY <2>2, FS_AddElement
    <2>4. ({x} \cup {y}) \cup {z} = {x, y, z} OBVIOUS
    <2> QED BY <2>3, <2>4
  <1>2. IsFiniteSet(A \cup B) BY <1>1, FS_Union
  <1>3. IsFiniteSet((A \cup B) \cup C) BY <1>1, <1>2, FS_Union
  <1>4. IsFiniteSet(((A \cup B) \cup C) \cup {"audit_bias"}) BY <1>3, FS_AddElement
  <1>5. strategy!Retried = ((A \cup B) \cup C) \cup {"audit_bias"}
    BY DEF strategy!Retried, strategy!Research, strategy!Synthesis
  <1> QED BY <1>4, <1>5

\* The strategist's initial states satisfy its invariant.
LEMMA StrategyInit == strategy!Init => StrategyInv
  <1> SUFFICES ASSUME strategy!Init PROVE StrategyInv
    OBVIOUS
  <1>1. /\ status = "running" /\ steps = 1 /\ next = {"normalize_idea"} /\ done = {}
        /\ st = [produced |-> {}, failed |-> {}, error_count |-> 0, fatal_error |-> FALSE]
    BY DEF strategy!Init, strategy!Graph!Start, strategy!Initial
  <1>2. RunTypes BY <1>1, LimitsAssumption DEF RunTypes
  <1>3. strategy!TypeOK BY <1>1, SameCardinality, FS_EmptySet DEF strategy!TypeOK
  <1> QED BY <1>1, <1>2, <1>3
        DEF StrategyInv, StrategyState, StrategyLayers, StrategyPast, AfterJoin

\* A node either changes nothing, notes that all failed, or has its part produced or failed.
LEMMA StrategyReturns ==
    ASSUME NEW L \in StrategyLayers, NEW n \in L, NEW r, NEW s,
           NEW t \in strategy!Returns(n, r, s)
    PROVE  \/ t = s
           \/ /\ n = "error_handler"
              /\ t = [s EXCEPT !.fatal_error = (s.failed # {})]
           \/ /\ n \in strategy!Retried
              /\ \/ t = strategy!Produce(n, s)
                 \/ t = strategy!Fail(n, s)
  BY DEF StrategyLayers, StrategyResearch, strategy!Returns, strategy!normalize_idea,
     strategy!size_market, strategy!discover_competitors, strategy!mine_keywords,
     strategy!generate_personas, strategy!analyze_trends, strategy!audit_bias,
     strategy!synthesize_canvas, strategy!score_viability, strategy!render_report,
     strategy!error_handler, strategy!with_retry,
     strategy!Retried, strategy!Research, strategy!Synthesis

\* A node's answer comes once: it is not among what the run knew of before.
LEMMA OnceReturned ==
    ASSUME StrategyInv, NEW n \in next \ done
    PROVE  n \notin st.produced \cup st.failed
  <1>1. \A m \in next : m \in strategy!Retried => m \notin StrategyPast(m)
    BY DEF StrategyInv, StrategyLayers, StrategyPast, StrategyResearch, strategy!Retried,
       strategy!Research, strategy!Synthesis
  <1>2. st.produced \cup st.failed \subseteq strategy!Retried
    BY DEF StrategyInv, strategy!TypeOK
  <1> QED BY <1>1, <1>2 DEF StrategyInv

\* A node of the strategist that returns keeps its invariant.
LEMMA StrategyReturnStep ==
    ASSUME StrategyInv, NEW n \in next, Returning(n), st' \in strategy!Returns(n, read, st)
    PROVE  StrategyInv'
  <1>1. RunTypes' BY RunTypesKept DEF StrategyInv
  <1>2. /\ n \in next \ done /\ done' = done \cup {n} /\ status' = "running"
        /\ status = "running" /\ next' = next
    BY DEF Returning
  <1>3. /\ next \in StrategyLayers /\ st \in StrategyState /\ RunTypes
        /\ st.failed \subseteq strategy!Retried \ st.produced
        /\ st.error_count = Cardinality(st.failed)
    BY SameCardinality DEF StrategyInv, strategy!TypeOK
  <1>4. CASE st' = st
    BY <1>1, <1>2, <1>4 DEF StrategyInv, strategy!TypeOK
  <1>5. CASE n = "error_handler" /\ st' = [st EXCEPT !.fatal_error = (st.failed # {})]
    <2>1. /\ st' \in StrategyState /\ st'.produced = st.produced /\ st'.failed = st.failed
          /\ st'.error_count = st.error_count
      BY <1>3, <1>5 DEF StrategyState
    <2>2. strategy!TypeOK'
      BY <2>1 DEF StrategyInv, strategy!TypeOK, StrategyState
    <2> QED BY <1>1, <1>2, <2>1, <2>2 DEF StrategyInv
  <1>6. CASE n \in strategy!Retried /\ (st' = strategy!Produce(n, st) \/ st' = strategy!Fail(n, st))
    <2>1. n \notin st.produced \cup st.failed BY <1>2, OnceReturned
    <2>2. IsFiniteSet(st.failed) /\ Cardinality(st.failed) \in Nat
      BY <1>3, RetriedIsFinite, FS_Subset, FS_CardinalityType DEF StrategyState
    <2>3. \/ /\ st'.produced = st.produced \cup {n} /\ st'.failed = st.failed
             /\ st'.error_count = st.error_count
          \/ /\ st'.failed = st.failed \cup {n} /\ st'.produced = st.produced
             /\ st'.error_count = st.error_count + 1
      BY <1>3, <1>6 DEF StrategyState, strategy!Produce, strategy!Fail
    <2>4. st' \in StrategyState
      <3>1. CASE st' = strategy!Produce(n, st)
        BY <1>3, <1>6, <3>1 DEF StrategyState, strategy!Produce
      <3>2. CASE st' = strategy!Fail(n, st)
        <4>1. PICK f, e : f = st.failed \cup {n} /\ e = st.error_count + 1 OBVIOUS
        <4>2. f \in SUBSET strategy!Retried /\ e \in Nat
          BY <1>3, <1>6, <4>1 DEF StrategyState
        <4>3. st' = [st EXCEPT !.failed = f, !.error_count = e]
          BY <3>2, <4>1 DEF strategy!Fail
        <4> QED BY <1>3, <4>2, <4>3 DEF StrategyState
      <3> QED BY <1>6, <3>1, <3>2
    <2>5. st'.error_count = Cardinality(st'.failed)
      BY <1>3, <2>1, <2>2, <2>3, FS_AddElement
    <2>6. strategy!TypeOK'
      BY <1>3, <1>6, <2>1, <2>3, <2>4, <2>5, SameCardinality DEF strategy!TypeOK, StrategyState
    <2>7. \A m \in next' : st'.produced \cup st'.failed \subseteq StrategyPast(m) \cup done'
      BY <1>2, <2>3 DEF StrategyInv
    <2>8. ASSUME next' \cap AfterJoin # {} \/ "render_report" \in st'.produced
          PROVE  Cardinality(st'.failed \cap Early) < MaxRetries
      <3>1. next \cap AfterJoin # {}
        <4>1. CASE next' \cap AfterJoin # {} BY <1>2, <4>1
        <4>2. CASE "render_report" \in st'.produced
          <5>1. \A m \in next : "render_report" \in StrategyPast(m) \cup done \cup {n}
            BY <4>2, <2>7, <1>2
          <5>2. \A m \in next : "render_report" \in next \/ m = "error_handler"
            BY <5>1, <1>2, <1>3 DEF StrategyLayers, StrategyPast, StrategyResearch, RunTypes
          <5> QED BY <5>2, <1>3, <1>6, <1>2 DEF StrategyLayers, StrategyResearch, AfterJoin,
                  strategy!Retried, strategy!Research, strategy!Synthesis
        <4> QED BY <2>8, <4>1, <4>2
      <3>2. n \notin Early
        BY <3>1, <1>2, <1>3 DEF StrategyLayers, StrategyResearch, AfterJoin, Early
      <3>3. st'.failed \cap Early = st.failed \cap Early BY <2>3, <3>2
      <3> QED BY <3>1, <3>3 DEF StrategyInv
    <2> QED BY <1>1, <1>2, <1>3, <2>4, <2>6, <2>7, <2>8 DEF StrategyInv
  <1> QED BY <1>3, <1>4, <1>5, <1>6, StrategyReturns

\* Where the graph goes from a layer, and what a run knows of there.
LEMMA StrategyEdges ==
    ASSUME StrategyInv, next # {}, done = next
    PROVE  LET following == strategy!Graph!Following
           IN  /\ following \in StrategyLayers
               /\ \A n \in following : st.produced \cup st.failed \subseteq StrategyPast(n)
               /\ "audit_bias" \in following => st.error_count < MaxRetries
               /\ following \cap (AfterJoin \ {"audit_bias"}) # {} => next \cap AfterJoin # {}
               /\ "audit_bias" \in following => next = {"parallel_join"}
  <1>1. \A n : strategy!Graph!Following =
                  UNION {strategy!Successors(m, st) : m \in next}
    BY DEF strategy!Graph!Following
  <1>2. \A n \in next : st.produced \cup st.failed \subseteq StrategyPast(n) \cup next
    BY DEF StrategyInv
  <1>3. next \in StrategyLayers /\ st.error_count \in Nat BY DEF StrategyInv, StrategyState
  <1>4. st.produced \cup st.failed \subseteq strategy!Retried
    BY DEF StrategyInv, StrategyState
  <1>5. CASE next = StrategyResearch
    <2>1. strategy!Graph!Following = {"parallel_join"}
      BY <1>1, <1>5 DEF strategy!Successors, strategy!Research, StrategyResearch
    <2> QED BY <2>1, <1>2, <1>3, <1>5 DEF StrategyLayers, StrategyPast, StrategyResearch, AfterJoin
  <1>6. CASE \E n : next = {n}
    <2>1. PICK n : next = {n} BY <1>6
    <2>2. strategy!Graph!Following = strategy!Successors(n, st) BY <1>1, <2>1
    <2>3. n \in {"normalize_idea", "parallel_join", "audit_bias", "synthesize_canvas",
                 "score_viability", "render_report", "error_handler"}
      BY <2>1, <1>3 DEF StrategyLayers, StrategyResearch
    <2>4. CASE n = "normalize_idea"
      BY <1>2, <1>3, <1>4, <2>1, <2>2, <2>4
      DEF strategy!Successors, strategy!route_after_normalize, strategy!Research,
          StrategyLayers, StrategyPast, StrategyResearch, AfterJoin
    <2>5. CASE n = "parallel_join"
      <3>1. \/ /\ strategy!Graph!Following = {"audit_bias"}
               /\ st.error_count < MaxRetries
            \/ strategy!Graph!Following = {"error_handler"}
        BY <1>3, <2>2, <2>5, LimitsAssumption
        DEF strategy!Successors, strategy!route_after_join, strategy!Research
      <3>2. st.produced \cup st.failed \subseteq StrategyPast("audit_bias")
        BY <1>2, <1>4, <2>1, <2>5
        DEF StrategyPast, StrategyResearch, strategy!Retried, strategy!Research, strategy!Synthesis
      <3>3. CASE strategy!Graph!Following = {"audit_bias"}
        BY <2>1, <2>5, <3>1, <3>2, <3>3 DEF StrategyLayers, AfterJoin
      <3>4. CASE strategy!Graph!Following = {"error_handler"}
        BY <1>4, <3>4 DEF StrategyLayers, StrategyPast, StrategyResearch, AfterJoin
      <3> QED BY <3>1, <3>3, <3>4
    <2>6. CASE n \in {"audit_bias", "synthesize_canvas", "score_viability",
                      "render_report", "error_handler"}
      <3>1. \/ strategy!Graph!Following \in {{}, {"error_handler"}}
            \/ n = "audit_bias" /\ strategy!Graph!Following = {"synthesize_canvas"}
            \/ n = "synthesize_canvas" /\ strategy!Graph!Following = {"score_viability"}
            \/ n = "score_viability" /\ strategy!Graph!Following = {"render_report"}
        BY <2>2, <2>6
        DEF strategy!Successors, strategy!route_after_audit, strategy!route_terminal,
            strategy!Research
      <3> QED BY <1>2, <1>4, <2>1, <2>6, <3>1
            DEF StrategyLayers, StrategyPast, StrategyResearch, AfterJoin
    <2> QED BY <2>3, <2>4, <2>5, <2>6
  <1> QED BY <1>3, <1>5, <1>6 DEF StrategyLayers

\* A next superstep of the strategist keeps its invariant.
LEMMA StrategyFollowStep ==
    ASSUME StrategyInv, Following(strategy!Graph!Following)
    PROVE  StrategyInv'
  <1>1. PICK following : following = strategy!Graph!Following OBVIOUS
  <1>2. Following(following) BY <1>1
  <1>3. /\ status = "running" /\ done = next /\ following # {} /\ st' = st /\ status' = status
        /\ next' = following /\ done' = {}
    BY <1>2 DEF Following
  <1>4. RunTypes' BY <1>2, RunTypesKept DEF StrategyInv
  <1>5. next # {} BY <1>1, <1>3 DEF strategy!Graph!Following
  <1>6. /\ following \in StrategyLayers
        /\ \A n \in following : st.produced \cup st.failed \subseteq StrategyPast(n)
        /\ "audit_bias" \in following => st.error_count < MaxRetries
        /\ following \cap (AfterJoin \ {"audit_bias"}) # {} => next \cap AfterJoin # {}
        /\ "audit_bias" \in following => next = {"parallel_join"}
    BY <1>1, <1>3, <1>5, StrategyEdges
  <1>7. ASSUME following \cap AfterJoin # {} \/ "render_report" \in st.produced
        PROVE  Cardinality(st.failed \cap Early) < MaxRetries
    <2>1. CASE "audit_bias" \in following
      <3>1. \A n \in next : st.failed \subseteq StrategyPast(n) \cup next
        BY <1>3 DEF StrategyInv
      <3>2. st.failed \subseteq Early
        BY <3>1, <2>1, <1>6 DEF StrategyInv, StrategyState, StrategyPast, StrategyResearch, Early,
           strategy!Retried, strategy!Research, strategy!Synthesis
      <3>3. st.failed \cap Early = st.failed BY <3>2
      <3> QED BY <3>3, <2>1, <1>6, SameCardinality DEF StrategyInv, strategy!TypeOK
    <2>2. CASE "audit_bias" \notin following
      BY <1>6, <1>7, <2>2 DEF StrategyInv
    <2> QED BY <2>1, <2>2
  <1> QED BY <1>3, <1>4, <1>6, <1>7 DEF StrategyInv, strategy!TypeOK

\* Every step of the strategist keeps its invariant.
LEMMA StrategyStep == StrategyInv /\ [strategy!Next]_agentVars => StrategyInv'
  <1> SUFFICES ASSUME StrategyInv, [strategy!Next]_agentVars PROVE StrategyInv'
    OBVIOUS
  <1>1. CASE \E n \in next : Returning(n) /\ st' \in strategy!Returns(n, read, st)
    BY <1>1, StrategyReturnStep
  <1>2. CASE Following(strategy!Graph!Following) BY <1>2, StrategyFollowStep
  <1>3. CASE Stopping(strategy!Graph!Following)
    <2>1. RunTypes' BY <1>3, RunTypesKept DEF StrategyInv
    <2> QED BY <1>3, <2>1 DEF Stopping, StrategyInv, StrategyLayers, strategy!TypeOK
  <1>4. CASE Verifying /\ strategy!verify
    <2>1. RunTypes' BY <1>4, RunTypesKept DEF StrategyInv
    <2> QED BY <1>4, <2>1
          DEF Verifying, strategy!verify, strategy!Complete, StrategyInv, strategy!TypeOK
  <1>5. CASE UNCHANGED agentVars
    <2>1. RunTypes' BY <1>5, RunTypesKept DEF StrategyInv, agentVars
    <2> QED BY <1>5, <2>1 DEF agentVars, StrategyInv, strategy!TypeOK
  <1> QED BY <1>1, <1>2, <1>3, <1>4, <1>5, StrategyMoves

\* The strategist's invariant is as strong as its type and its promise.
LEMMA StrategyHolds ==
    StrategyInv => RunTypes /\ strategy!TypeOK /\ strategy!PackageRestsOnResearch
  <1> SUFFICES ASSUME StrategyInv PROVE strategy!PackageRestsOnResearch
    BY DEF StrategyInv
  <1>1. SUFFICES ASSUME status = "returned"
        PROVE  /\ strategy!Synthesis \subseteq st.produced
               /\ strategy!Cardinality(st.failed \cap Early) < MaxRetries
    BY DEF strategy!PackageRestsOnResearch, Early, StrategyResearch, strategy!Research
  <1>2. "render_report" \in st.produced BY <1>1 DEF StrategyInv, strategy!Synthesis
  <1> QED BY <1>1, <1>2, SameCardinality DEF StrategyInv

-----------------------------------------------------------------------------
(* The architect *)

ArchitectLayers ==
    {{}, {"design_erd", "design_api_contract", "select_stack"}} \cup
    {{n} : n \in {"extract_requirements", "select_stack", "design_join", "auth_strategy",
                  "scaling_plan", "cost_forecast", "compose_featurelist", "hitl_gate",
                  "error_end"}}

ArchitectDesigns ==
    [requirements : BOOLEAN, erd : architect!Drawings, contract : architect!Specifications,
     drawn_from : architect!Drawings, stack : architect!Stacks, design_complete : BOOLEAN,
     auth : architect!Stacks, scaling : architect!Stacks, cost : architect!Stacks,
     pricing_source : architect!get_prices \cup {"none"}, is_estimate : BOOLEAN,
     features : architect!Stacks, listed : BOOLEAN]

ArchitectState == [design : ArchitectDesigns, approval_status : architect!Approvals]

\* The join finds a design complete.
Complete(d) == d.erd # "none" /\ d.contract # "none" /\ d.stack # 0

\* All parts of d are of its stack.
OneStack(d) ==
    /\ Complete(d)
    /\ d.auth = d.stack /\ d.scaling = d.stack /\ d.cost = d.stack /\ d.features = d.stack

\* What is known of design d in the superstep of the nodes in layer, of which those in
\* finished have returned.
DesignAt(d, layer, finished) ==
    /\ d.listed => /\ d.erd # "none" /\ d.contract # "none"
                   /\ layer \cap {"extract_requirements", "design_erd", "design_api_contract"} = {}
    /\ "design_join" \in layer \/ "select_stack" \in finished => d.stack # 0
    /\ "design_join" \in finished => d.design_complete = Complete(d)
    /\ layer \cap {"auth_strategy", "scaling_plan", "cost_forecast", "compose_featurelist",
                   "hitl_gate"} # {} => Complete(d)
    /\ \/ layer \cap {"scaling_plan", "cost_forecast", "compose_featurelist", "hitl_gate"} # {}
       \/ "auth_strategy" \in finished
       => d.auth = d.stack
    /\ layer \cap {"cost_forecast", "compose_featurelist", "hitl_gate"} # {}
       \/ "scaling_plan" \in finished
       => d.scaling = d.stack
    /\ layer \cap {"compose_featurelist", "hitl_gate"} # {} \/ "cost_forecast" \in finished
       => d.cost = d.stack
    /\ "hitl_gate" \in layer \/ "compose_featurelist" \in finished => d.features = d.stack
    /\ "error_end" \in layer /\ d.listed => OneStack(d)

\* The stack is selected at most once a superstep; what the gate sees is of one stack.
ArchitectInv ==
    /\ RunTypes
    /\ st \in ArchitectState
    /\ read \in ArchitectState
    /\ next \in ArchitectLayers
    /\ st.design.stack < steps
    /\ "select_stack" \in next \ done => st.design.stack + 1 < steps
    /\ DesignAt(st.design, next, done)
    /\ status \in {"ended", "returned"} /\ st.design.listed => OneStack(st.design)
    /\ status = "returned" => st.design.listed

\* Every step of the architect is one that any run may make.
LEMMA ArchitectMoves ==
    ASSUME architect!Next
    PROVE  \/ \E n \in next : Returning(n) /\ st' \in architect!Returns(n, read, st)
           \/ Stopping(architect!Graph!Following)
           \/ Following(architect!Graph!Following)
           \/ Verifying /\ architect!_state_to_output
  BY LimitsAssumption
  DEF architect!Next, architect!Graph!Step, architect!Graph!superstep,
     architect!Graph!limit_reached, architect!Graph!end_reached,
     architect!Graph!node_returns, architect!Graph!node_raises, architect!Graph!abandoned,
     architect!Graph!Stop, architect!_state_to_output, Returning, Stopping, Following, Verifying

\* The architect's initial states satisfy its invariant.
LEMMA ArchitectInit == architect!Init => ArchitectInv
  <1> SUFFICES ASSUME NEW approval \in architect!Approvals,
                      architect!Graph!Start(architect!Initial(approval))
               PROVE  ArchitectInv
    BY DEF architect!Init
  <1>1. /\ status = "running" /\ steps = 1 /\ next = {"extract_requirements"} /\ done = {}
        /\ st = [design |-> architect!Unwritten, approval_status |-> approval] /\ read = st
    BY DEF architect!Graph!Start, architect!Initial
  <1>2. RunTypes BY <1>1, LimitsAssumption DEF RunTypes
  <1>3. architect!Unwritten \in ArchitectDesigns
    BY LimitsAssumption
    DEF architect!Unwritten, ArchitectDesigns, architect!Drawings, architect!Specifications,
        architect!Stacks, architect!get_prices
  <1>4. st \in ArchitectState BY <1>1, <1>3 DEF ArchitectState
  <1>5. /\ st.design.stack = 0 /\ ~st.design.listed
    BY <1>1 DEF architect!Unwritten
  <1>6. DesignAt(st.design, next, done) BY <1>1, <1>5 DEF DesignAt
  <1> QED BY <1>1, <1>2, <1>4, <1>5, <1>6 DEF ArchitectInv, ArchitectLayers

\* A node that returns keeps what is known of the design, and adds its part to it.
LEMMA ArchitectDesigned ==
    ASSUME NEW d \in ArchitectDesigns, NEW r \in ArchitectDesigns,
           NEW L \in ArchitectLayers, NEW n \in L, NEW e \in architect!Designs(n, r, d),
           n = "select_stack" => d.stack + 1 \in architect!Stacks,
           NEW finished \in SUBSET L, n \notin finished, DesignAt(d, L, finished)
    PROVE  /\ e \in ArchitectDesigns
           /\ e.stack = IF n = "select_stack" THEN d.stack + 1 ELSE d.stack
           /\ DesignAt(e, L, finished \cup {n})
  <1>0. /\ d.stack \in Nat
        /\ n \in {"design_erd", "design_api_contract", "extract_requirements", "select_stack",
                  "design_join", "auth_strategy", "scaling_plan", "cost_forecast",
                  "compose_featurelist", "hitl_gate", "error_end"}
    BY DEF ArchitectDesigns, architect!Stacks, ArchitectLayers
  <1>1. CASE n = "extract_requirements"
    <2>1. PICK found \in BOOLEAN : e = [d EXCEPT !.requirements = found]
      BY <1>1 DEF architect!Designs, architect!extract_requirements
    <2>2. e \in ArchitectDesigns BY <2>1 DEF ArchitectDesigns
    <2> QED BY <1>1, <2>1, <2>2 DEF DesignAt, Complete, OneStack, ArchitectDesigns
  <1>2. CASE n = "design_erd"
    <2>1. PICK x \in architect!Drawings : e = [d EXCEPT !.erd = x]
      BY <1>2 DEF architect!Designs, architect!design_erd
    <2>2. e \in ArchitectDesigns BY <2>1 DEF ArchitectDesigns
    <2> QED BY <1>2, <2>1, <2>2 DEF DesignAt, Complete, OneStack, ArchitectDesigns, ArchitectLayers
  <1>3. CASE n = "design_api_contract"
    <2>1. PICK x \in architect!Specifications : e = [d EXCEPT !.contract = x, !.drawn_from = r.erd]
      BY <1>3 DEF architect!Designs, architect!design_api_contract
    <2>2. e \in ArchitectDesigns BY <2>1 DEF ArchitectDesigns
    <2> QED BY <1>3, <2>1, <2>2 DEF DesignAt, Complete, OneStack, ArchitectDesigns, ArchitectLayers
  <1>4. CASE n = "select_stack"
    <2>1. e = [d EXCEPT !.stack = d.stack + 1]
      BY <1>4 DEF architect!Designs, architect!select_stack
    <2>2. e \in ArchitectDesigns BY <1>4, <2>1 DEF ArchitectDesigns
    <2> QED BY <1>0, <1>4, <2>1, <2>2
          DEF DesignAt, Complete, OneStack, ArchitectDesigns, ArchitectLayers
  <1>5. CASE n = "design_join"
    <2>1. e = [d EXCEPT !.design_complete = Complete(d)]
      BY <1>5 DEF architect!Designs, architect!design_join, Complete
    <2>2. e \in ArchitectDesigns BY <2>1 DEF ArchitectDesigns, Complete
    <2> QED BY <1>5, <2>1, <2>2 DEF DesignAt, Complete, OneStack, ArchitectDesigns, ArchitectLayers
  <1>6. CASE n = "auth_strategy"
    <2>1. e = [d EXCEPT !.auth = d.stack]
      BY <1>6 DEF architect!Designs, architect!auth_strategy
    <2>2. e \in ArchitectDesigns BY <2>1 DEF ArchitectDesigns
    <2> QED BY <1>6, <2>1, <2>2 DEF DesignAt, Complete, OneStack, ArchitectDesigns, ArchitectLayers
  <1>7. CASE n = "scaling_plan"
    <2>1. e = [d EXCEPT !.scaling = d.stack]
      BY <1>7 DEF architect!Designs, architect!scaling_plan
    <2>2. e \in ArchitectDesigns BY <2>1 DEF ArchitectDesigns
    <2> QED BY <1>7, <2>1, <2>2 DEF DesignAt, Complete, OneStack, ArchitectDesigns, ArchitectLayers
  <1>8. CASE n = "cost_forecast"
    <2>1. PICK s \in architect!get_prices, x \in BOOLEAN :
            e = [d EXCEPT !.cost = d.scaling, !.pricing_source = s, !.is_estimate = x]
      BY <1>8 DEF architect!Designs, architect!cost_forecast, architect!is_estimate
    <2>2. e \in ArchitectDesigns BY <2>1 DEF ArchitectDesigns
    <2> QED BY <1>8, <2>1, <2>2 DEF DesignAt, Complete, OneStack, ArchitectDesigns, ArchitectLayers
  <1>9. CASE n = "compose_featurelist"
    <2>1. PICK l \in BOOLEAN : e = [d EXCEPT !.features = d.stack, !.listed = l]
      BY <1>9 DEF architect!Designs, architect!compose_featurelist
    <2>2. e \in ArchitectDesigns BY <2>1 DEF ArchitectDesigns
    <2> QED BY <1>9, <2>1, <2>2 DEF DesignAt, Complete, OneStack, ArchitectDesigns, ArchitectLayers
  <1>10. CASE n \in {"hitl_gate", "error_end"}
    <2>1. e = d BY <1>10 DEF architect!Designs
    <2> QED BY <1>10, <2>1 DEF DesignAt
  <1> QED BY <1>0, <1>1, <1>2, <1>3, <1>4, <1>5, <1>6, <1>7, <1>8, <1>9, <1>10

\* A node of the architect that returns keeps its invariant.
LEMMA ArchitectReturnStep ==
    ASSUME ArchitectInv, NEW n \in next, Returning(n), st' \in architect!Returns(n, read, st)
    PROVE  ArchitectInv'
  <1>1. RunTypes' BY RunTypesKept DEF ArchitectInv
  <1>2. /\ n \in next \ done /\ done' = done \cup {n} /\ status' = "running" /\ status = "running"
        /\ next' = next /\ read' = read /\ steps' = steps
    BY DEF Returning
  <1>3. PICK e \in architect!Designs(n, read.design, st.design) : st' = [st EXCEPT !.design = e]
    BY DEF architect!Returns
  <1>4. /\ st.design \in ArchitectDesigns /\ read.design \in ArchitectDesigns
        /\ steps \in 1..RecursionLimit /\ st.design.stack \in Nat
        /\ next \in ArchitectLayers /\ done \in SUBSET next
        /\ DesignAt(st.design, next, done)
    BY DEF ArchitectInv, ArchitectState, ArchitectDesigns, RunTypes, architect!Stacks
  <1>5. n = "select_stack" => st.design.stack + 1 \in architect!Stacks /\ st.design.stack + 1 < steps
    BY <1>2, <1>4, LimitsAssumption DEF ArchitectInv, architect!Stacks
  <1>6. /\ e \in ArchitectDesigns
        /\ e.stack = IF n = "select_stack" THEN st.design.stack + 1 ELSE st.design.stack
        /\ DesignAt(e, next, done \cup {n})
    BY <1>2, <1>4, <1>5, ArchitectDesigned
  <1>7. st' \in ArchitectState /\ st'.design = e
    BY <1>3, <1>6 DEF ArchitectInv, ArchitectState
  <1>8. /\ st'.design.stack < steps'
        /\ "select_stack" \in next' \ done' => st'.design.stack + 1 < steps'
    BY <1>2, <1>4, <1>5, <1>6, <1>7 DEF ArchitectInv
  <1>9. DesignAt(st.design, next, done)' BY <1>2, <1>6, <1>7 DEF DesignAt, OneStack, Complete
  <1> QED BY <1>1, <1>2, <1>4, <1>7, <1>8, <1>9 DEF ArchitectInv

\* Where the graph goes from a layer, and what is known of the design there.
LEMMA ArchitectEdges ==
    ASSUME ArchitectInv, next # {}, done = next
    PROVE  /\ architect!Graph!Following \in ArchitectLayers
           /\ DesignAt(st.design, architect!Graph!Following, {})
           /\ architect!Graph!Following = {} /\ st.design.listed => OneStack(st.design)
  <1>1. architect!Graph!Following = UNION {architect!Successors(m, st) : m \in next}
    BY DEF architect!Graph!Following
  <1>2. next \in ArchitectLayers /\ DesignAt(st.design, next, next)
        /\ st.approval_status \in architect!Approvals
    BY DEF ArchitectInv, ArchitectState
  <1> USE DEF DesignAt, Complete, OneStack
  <1>3. CASE next = {"design_erd", "design_api_contract", "select_stack"}
    <2>1. architect!Graph!Following = {"design_join"}
      BY <1>1, <1>3 DEF architect!Successors, architect!Edges
    <2> QED BY <2>1, <1>2, <1>3 DEF ArchitectLayers
  <1>4. CASE \E n : next = {n}
    <2>1. PICK n : next = {n} BY <1>4
    <2>2. architect!Graph!Following = architect!Successors(n, st) BY <1>1, <2>1
    <2>3. CASE n = "design_join"
      BY <1>2, <2>1, <2>2, <2>3
      DEF architect!Successors, architect!route_after_design_join, ArchitectLayers
    <2>4. CASE n = "compose_featurelist"
      BY <1>2, <2>1, <2>2, <2>4
      DEF architect!Successors, architect!route_after_featurelist, ArchitectLayers
    <2>5. CASE n = "hitl_gate"
      BY <1>2, <2>1, <2>2, <2>5
      DEF architect!Successors, architect!route_after_hitl, architect!Approvals, ArchitectLayers
    <2>6. CASE n \in {"extract_requirements", "select_stack", "auth_strategy", "scaling_plan",
                      "cost_forecast", "error_end"}
      <3>1. architect!Graph!Following = architect!Edges[n]
        BY <2>2, <2>6 DEF architect!Successors
      <3>2. CASE n = "extract_requirements"
        BY <3>1, <3>2, <1>2, <2>1 DEF architect!Edges, ArchitectLayers
      <3>3. CASE n \in {"select_stack", "auth_strategy", "scaling_plan", "cost_forecast", "error_end"}
        <4>1. \/ n = "select_stack" /\ architect!Graph!Following = {"design_join"}
              \/ n = "auth_strategy" /\ architect!Graph!Following = {"scaling_plan"}
              \/ n = "scaling_plan" /\ architect!Graph!Following = {"cost_forecast"}
              \/ n = "cost_forecast" /\ architect!Graph!Following = {"compose_featurelist"}
              \/ n = "error_end" /\ architect!Graph!Following = {}
          BY <3>1, <3>3 DEF architect!Edges
        <4>2. architect!Graph!Following \in ArchitectLayers BY <4>1 DEF ArchitectLayers
        <4> QED BY <4>1, <4>2, <1>2, <2>1
      <3> QED BY <2>6, <3>2, <3>3
    <2>7. n \in {"extract_requirements", "select_stack", "design_join", "auth_strategy",
                 "scaling_plan", "cost_forecast", "compose_featurelist", "hitl_gate", "error_end"}
      BY <1>2, <2>1 DEF ArchitectLayers
    <2> QED BY <2>3, <2>4, <2>5, <2>6, <2>7
  <1> QED BY <1>2, <1>3, <1>4 DEF ArchitectLayers

\* A next superstep of the architect keeps its invariant.
LEMMA ArchitectFollowStep ==
    ASSUME ArchitectInv, Following(architect!Graph!Following)
    PROVE  ArchitectInv'
  <1>1. PICK following : following = architect!Graph!Following OBVIOUS
  <1>2. Following(following) BY <1>1
  <1>3. /\ status = "running" /\ done = next /\ following # {} /\ st' = st /\ status' = status
        /\ next' = following /\ done' = {} /\ read' = st /\ steps' = steps + 1
    BY <1>2 DEF Following
  <1>4. RunTypes' BY <1>2, RunTypesKept DEF ArchitectInv
  <1>5. next # {} BY <1>1, <1>3 DEF architect!Graph!Following
  <1>6. following \in ArchitectLayers /\ DesignAt(st.design, following, {})
    BY <1>1, <1>3, <1>5, ArchitectEdges
  <1>7. st.design.stack + 1 < steps + 1 /\ st.design.stack < steps + 1
    BY DEF ArchitectInv, RunTypes, ArchitectState, ArchitectDesigns, architect!Stacks
  <1>8. DesignAt(st.design, next, done)' BY <1>3, <1>6 DEF DesignAt, OneStack, Complete
  <1> QED BY <1>3, <1>4, <1>6, <1>7, <1>8 DEF ArchitectInv

\* Every step of the architect keeps its invariant.
LEMMA ArchitectStep == ArchitectInv /\ [architect!Next]_agentVars => ArchitectInv'
  <1> SUFFICES ASSUME ArchitectInv, [architect!Next]_agentVars PROVE ArchitectInv'
    OBVIOUS
  <1>1. CASE \E n \in next : Returning(n) /\ st' \in architect!Returns(n, read, st)
    BY <1>1, ArchitectReturnStep
  <1>2. CASE Following(architect!Graph!Following) BY <1>2, ArchitectFollowStep
  <1>3. CASE Stopping(architect!Graph!Following)
    <2>1. RunTypes' BY <1>3, RunTypesKept DEF ArchitectInv
    <2>2. /\ status' \in {"ended", "failed"} /\ next' = {} /\ done' = {} /\ st' = st /\ read' = read
          /\ steps' = steps /\ status = "running"
      BY <1>3 DEF Stopping
    <2>3. status' = "ended" /\ st.design.listed => OneStack(st.design)
      BY <1>3, ArchitectEdges DEF Stopping, ArchitectInv, RunTypes
    <2>4. (DesignAt(st.design, next, done))'
      BY <2>2 DEF DesignAt, ArchitectInv
    <2> QED BY <2>1, <2>2, <2>3, <2>4 DEF ArchitectInv, ArchitectLayers, OneStack, Complete
  <1>4. CASE Verifying /\ architect!_state_to_output
    <2>1. RunTypes' BY <1>4, RunTypesKept DEF ArchitectInv
    <2> QED BY <1>4, <2>1
          DEF Verifying, architect!_state_to_output, ArchitectInv, DesignAt, OneStack, Complete
  <1>5. CASE UNCHANGED agentVars
    <2>1. RunTypes' BY <1>5, RunTypesKept DEF ArchitectInv, agentVars
    <2> QED BY <1>5, <2>1 DEF agentVars, ArchitectInv, DesignAt, OneStack, Complete
  <1> QED BY <1>1, <1>2, <1>3, <1>4, <1>5, ArchitectMoves

\* The architect's invariant is as strong as its type and its promise.
LEMMA ArchitectHolds ==
    ArchitectInv => RunTypes /\ architect!TypeOK /\ architect!DesignIsOfOneStack
  <1> SUFFICES ASSUME ArchitectInv PROVE architect!TypeOK /\ architect!DesignIsOfOneStack
    BY DEF ArchitectInv
  <1>1. architect!TypeOK
    BY DEF ArchitectInv, ArchitectState, ArchitectDesigns, architect!TypeOK
  <1>2. "hitl_gate" \in next => OneStack(st.design)
    BY DEF ArchitectInv, DesignAt, OneStack
  <1>3. status = "returned" => OneStack(st.design) BY DEF ArchitectInv
  <1> QED BY <1>1, <1>2, <1>3 DEF OneStack, Complete, architect!DesignIsOfOneStack

-----------------------------------------------------------------------------
(* Marketing *)

\* The nodes that write a campaign's content.
GeneratorNodes ==
    {"generate_landing_page", "generate_seo_blogs", "generate_product_hunt_kit",
     "generate_social_posts", "generate_email_sequences", "generate_visual_assets"}

\* Before anything is scheduled.
Preparing ==
    {"ingest_input", "analyse_brand", "parallel_join", "hallucination_check",
     "launch_control_center"} \cup GeneratorNodes

MarketingLayers ==
    {{}, GeneratorNodes} \cup
    {{n} : n \in {"ingest_input", "analyse_brand", "generate_landing_page", "parallel_join",
                  "hallucination_check", "launch_control_center", "schedule_posts",
                  "render_gtm_report", "error_handler"}}

Slots == [marketing!Channels -> marketing!Typefully \cup marketing!Buffer
                                    \cup marketing!Resend \cup {"none", "manual"}]

MarketingState ==
    [valid : BOOLEAN, env : marketing!Environments, redis_url : BOOLEAN, preset : marketing!Answers,
     fatal_error : BOOLEAN, draft : [marketing!ContentTypes -> marketing!Drafts],
     seen : [marketing!Audited -> marketing!Drafts],
     verdict : {"none", "passed", "critical", "not_audited"},
     retry_count : 0..2, answer : {"none", "approved", "rejected", "partial", "unknown"},
     approval_status : marketing!Answers \cup {"timed_out", "unknown"},
     approved : SUBSET marketing!ContentTypes, scheduled : Slots, report : BOOLEAN]

\* Something went out.
IsScheduled(s) == \E c \in marketing!Channels : s.scheduled[c] \in {"scheduled", "sent"}

\* The audit has seen the drafts as they are.
Seen(s) == \A t \in marketing!Audited : s.seen[t] = s.draft[t]

\* The founder's answer is waited for, and a failure of Redis is not an approval.
MustAnswer(s) == s.redis_url /\ s.env # "development"

\* Where an answer is needed it has approved, at least in part.
Consented(s) ==
    MustAnswer(s) => {s.preset, s.answer} \cap {"approved", "partial"} # {}

\* What is known of state s in the superstep of the nodes in layer, of which those in
\* finished have returned.
CampaignAt(s, layer, finished) ==
    /\ IsScheduled(s) => /\ layer \cap Preparing = {}
                         /\ s.verdict # "critical" /\ Seen(s) /\ Consented(s)
    /\ layer \cap (Preparing \ {"launch_control_center"}) # {}
       /\ "hallucination_check" \notin finished
       => s.retry_count < 2
    /\ "hallucination_check" \in finished => Seen(s)
    /\ layer \cap {"launch_control_center", "schedule_posts"} # {}
       => s.verdict # "critical" /\ Seen(s)
    /\ "launch_control_center" \in finished /\ s.approval_status \in {"approved", "partial"}
       => Consented(s)
    /\ "schedule_posts" \in layer => Consented(s)

\* What is scheduled was seen by the audit and, where an answer is needed, consented to.
MarketingInv ==
    /\ RunTypes
    /\ st \in MarketingState
    /\ next \in MarketingLayers
    /\ CampaignAt(st, next, done)

\* Every step of the marketing agent is one that any run may make.
LEMMA MarketingMoves ==
    ASSUME marketing!Next
    PROVE  \/ \E n \in next : Returning(n) /\ st' \in marketing!Returns(n, read, st)
           \/ Stopping(marketing!Graph!Following)
           \/ Following(marketing!Graph!Following)
  BY LimitsAssumption
  DEF marketing!Next, marketing!Graph!Step, marketing!Graph!superstep,
     marketing!Graph!limit_reached, marketing!Graph!end_reached,
     marketing!Graph!node_returns, marketing!Graph!node_raises, marketing!Graph!abandoned,
     marketing!Graph!Stop, Returning, Stopping, Following

\* The marketing agent's initial states satisfy its invariant.
LEMMA MarketingInit == marketing!Init => MarketingInv
  <1> SUFFICES ASSUME NEW valid \in BOOLEAN, NEW env \in marketing!Environments,
                      NEW redis_url \in BOOLEAN, NEW preset \in marketing!Answers,
                      NEW named \in {{}, {"social_posts", "email_sequences"}},
                      marketing!Graph!Start(marketing!Initial(valid, env, redis_url, preset, named))
               PROVE  MarketingInv
    BY DEF marketing!Init
  <1>1. /\ status = "running" /\ steps = 1 /\ next = {"ingest_input"} /\ done = {}
        /\ st = marketing!Initial(valid, env, redis_url, preset, named)
    BY DEF marketing!Graph!Start
  <1>2. RunTypes BY <1>1, LimitsAssumption DEF RunTypes
  <1>3. st \in MarketingState
    BY <1>1 DEF marketing!Initial, MarketingState, marketing!Drafts, marketing!Answers,
       marketing!ContentTypes, Slots
  <1>4. CampaignAt(st, next, done)
    BY <1>1 DEF CampaignAt, marketing!Initial, IsScheduled, Preparing
  <1> QED BY <1>1, <1>2, <1>3, <1>4 DEF MarketingInv, MarketingLayers

\* The generators, as the model names them.
LEMMA GeneratorsAre == marketing!Generators = GeneratorNodes
  BY DEF marketing!Generators, marketing!Generator, marketing!ContentTypes, GeneratorNodes

\* A generator changes one draft, before anything is scheduled.
LEMMA Generated ==
    ASSUME NEW s \in MarketingState, NEW n \in GeneratorNodes, NEW r,
           NEW t \in marketing!Returns(n, r, s)
    PROVE  \E f \in [marketing!ContentTypes -> marketing!Drafts] : t = [s EXCEPT !.draft = f]
  <1>1. \E c \in marketing!ContentTypes, d \in marketing!Drafts : t = marketing!Draft(c, d, s)
    BY DEF marketing!Returns, marketing!generate_landing_page, marketing!generate_seo_blogs,
       marketing!generate_product_hunt_kit, marketing!generate_social_posts,
       marketing!generate_email_sequences, marketing!generate_visual_assets,
       marketing!Generate, GeneratorNodes, marketing!ContentTypes, marketing!Drafts
  <1>2. PICK c \in marketing!ContentTypes, d \in marketing!Drafts :
          t = [s EXCEPT !.draft[c] = d]
    BY <1>1 DEF marketing!Draft
  <1>3. [s.draft EXCEPT ![c] = d] \in [marketing!ContentTypes -> marketing!Drafts]
    BY DEF MarketingState
  <1> QED BY <1>2, <1>3

\* An audit has seen the drafts as they are.
LEMMA Audits ==
    ASSUME NEW s \in MarketingState, s.retry_count < 2, NEW t \in marketing!hallucination_check(s)
    PROVE  /\ t \in MarketingState
           /\ t.scheduled = s.scheduled
           /\ Seen(t)
  <1>1. PICK v \in {"passed", "critical", "not_audited"} : t = marketing!Audit(v, s)
    BY DEF marketing!hallucination_check
  <1>2. PICK f : f = [c \in marketing!Audited |-> s.draft[c]] OBVIOUS
  <1>3. PICK k : k = IF v = "critical" THEN s.retry_count + 1 ELSE s.retry_count OBVIOUS
  <1>4. t = [s EXCEPT !.verdict = v, !.seen = f, !.retry_count = k]
    BY <1>1, <1>2, <1>3 DEF marketing!Audit
  <1>5. f \in [marketing!Audited -> marketing!Drafts]
    BY <1>2 DEF MarketingState, marketing!Audited
  <1>6. k \in 0..2 BY <1>3 DEF MarketingState
  <1>7. t \in MarketingState /\ t.scheduled = s.scheduled /\ t.draft = s.draft /\ t.seen = f
    BY <1>4, <1>5, <1>6 DEF MarketingState
  <1> QED BY <1>2, <1>7 DEF Seen

\* With the decision an approval names its giver.
LEMMA Decides ==
    ASSUME NEW s \in MarketingState, NEW t \in marketing!launch_control_center(s)
    PROVE  \E a \in {"none", "approved", "rejected", "partial", "unknown"},
              d \in marketing!Answers \cup {"timed_out", "unknown"},
              x \in SUBSET marketing!ContentTypes :
             /\ t = [s EXCEPT !.answer = a, !.approval_status = d, !.approved = x]
             /\ d \in {"approved", "partial"} /\ MustAnswer(s) => d \in {s.preset, a}
  <1> USE DEF marketing!Answers
  <1>1. \A d, u : u \in MarketingState =>
          \E x \in SUBSET marketing!ContentTypes :
             d \in {"approved", "unknown", "rejected", "timed_out", "partial"} =>
               marketing!Decide(d, u) = [u EXCEPT !.approval_status = d, !.approved = x]
    <2> TAKE d, u
    <2> HAVE u \in MarketingState
    <2>1. CASE d \in {"approved", "unknown"}
      <3>1. marketing!Decide(d, u) =
              [u EXCEPT !.approval_status = d, !.approved = marketing!ContentTypes]
        BY <2>1 DEF marketing!Decide
      <3> QED BY <3>1
    <2>2. CASE d \in {"rejected", "timed_out"}
      <3>1. marketing!Decide(d, u) = [u EXCEPT !.approval_status = d, !.approved = {}]
        BY <2>2 DEF marketing!Decide
      <3> QED BY <3>1
    <2>3. CASE d = "partial"
      <3>1. PICK x : x = IF u.approved # {} THEN u.approved ELSE marketing!FirstContentTypes
        OBVIOUS
      <3>2. x \in SUBSET marketing!ContentTypes
        BY <3>1 DEF MarketingState, marketing!FirstContentTypes, marketing!ContentTypes
      <3>3. marketing!Decide(d, u) = [u EXCEPT !.approval_status = d, !.approved = x]
        BY <2>3, <3>1 DEF marketing!Decide
      <3> QED BY <3>2, <3>3
    <2> QED BY <2>1, <2>2, <2>3
  <1>2. \E a \in {"none", "approved", "rejected", "partial", "unknown"},
           d \in {"approved", "unknown", "rejected", "timed_out", "partial"} :
             /\ t = marketing!Decide(d, [s EXCEPT !.answer = a])
             /\ d \in {"approved", "partial"} /\ MustAnswer(s) => d \in {s.preset, a}
    <2>1. CASE t \in marketing!PollAnswer(s)
      BY <2>1 DEF marketing!PollAnswer
    <2>2. CASE \E d \in {"approved", "unknown", "rejected", "timed_out", "partial"} :
                 /\ t = marketing!Decide(d, s)
                 /\ d \in {"approved", "partial"} /\ MustAnswer(s) => d = s.preset
      <3>1. s = [s EXCEPT !.answer = s.answer] BY DEF MarketingState
      <3>2. s.answer \in {"none", "approved", "rejected", "partial", "unknown"}
        BY DEF MarketingState
      <3> QED BY <2>2, <3>1, <3>2
    <2>3. CASE s.preset # "pending"
      <3>1. t = marketing!Decide(s.preset, s)
        BY <2>3 DEF marketing!launch_control_center
      <3>2. s.preset \in {"approved", "rejected", "partial"} BY <2>3 DEF MarketingState
      <3> QED BY <2>2, <3>1, <3>2
    <2>4. CASE s.preset = "pending"
      <3>1. \/ ~MustAnswer(s) /\ t = marketing!Decide("approved", s)
            \/ t = marketing!Decide("timed_out", s)
            \/ t \in marketing!PollAnswer(s)
        BY <2>4 DEF marketing!launch_control_center, MarketingState, MustAnswer
      <3> QED BY <2>1, <2>2, <3>1
    <2> QED BY <2>3, <2>4
  <1>3. PICK a \in {"none", "approved", "rejected", "partial", "unknown"},
             d \in {"approved", "unknown", "rejected", "timed_out", "partial"} :
               /\ t = marketing!Decide(d, [s EXCEPT !.answer = a])
               /\ d \in {"approved", "partial"} /\ MustAnswer(s) => d \in {s.preset, a}
    BY <1>2
  <1>4. PICK u : u = [s EXCEPT !.answer = a] OBVIOUS
  <1>5. u \in MarketingState BY <1>4 DEF MarketingState
  <1>6. PICK x \in SUBSET marketing!ContentTypes :
               t = [u EXCEPT !.approval_status = d, !.approved = x]
    BY <1>1, <1>3, <1>4, <1>5
  <1>7. t = [s EXCEPT !.answer = a, !.approval_status = d, !.approved = x]
    BY <1>4, <1>6
  <1> QED BY <1>3, <1>7

\* Scheduling fills the slots of the channels, and no more.
LEMMA Schedules ==
    ASSUME NEW s \in MarketingState, NEW t \in marketing!schedule_posts(s)
    PROVE  \E f \in Slots : t = [s EXCEPT !.scheduled = f]
  <1>1. PICK thread \in marketing!Typefully \cup {"none"}, post \in marketing!Buffer \cup {"none"},
             mail \in marketing!Resend \cup {"none"}, hunt \in {"manual", "none"} :
          t = [s EXCEPT !.scheduled = [x |-> thread, linkedin |-> post, email_day0 |-> mail,
                                       product_hunt |-> hunt]]
    BY DEF marketing!schedule_posts
  <1>2. [x |-> thread, linkedin |-> post, email_day0 |-> mail, product_hunt |-> hunt] \in Slots
    BY DEF Slots, marketing!Channels
  <1> QED BY <1>1, <1>2

\* A node that returns keeps what is known of the campaign, and adds its part to it.
LEMMA CampaignReturned ==
    ASSUME NEW s \in MarketingState, NEW L \in MarketingLayers, NEW finished \in SUBSET L,
           NEW n \in L \ finished, NEW r, NEW t \in marketing!Returns(n, r, s),
           CampaignAt(s, L, finished)
    PROVE  t \in MarketingState /\ CampaignAt(t, L, finished \cup {n})
  <1>0. n \in Preparing \cup {"schedule_posts", "render_gtm_report", "error_handler"}
    BY DEF MarketingLayers, Preparing, GeneratorNodes
  <1>1. CASE n \in GeneratorNodes
    <2>1. PICK f \in [marketing!ContentTypes -> marketing!Drafts] : t = [s EXCEPT !.draft = f]
      BY <1>1, Generated
    <2>2. /\ t \in MarketingState /\ t.scheduled = s.scheduled /\ t.retry_count = s.retry_count
      BY <2>1 DEF MarketingState
    <2>3. L \in {GeneratorNodes, {"generate_landing_page"}}
      BY <1>1 DEF MarketingLayers, GeneratorNodes
    <2>4. ~IsScheduled(t)
      BY <1>1, <2>2, <2>3 DEF CampaignAt, IsScheduled, Preparing
    <2> QED BY <2>2, <2>3, <2>4, <1>1 DEF CampaignAt, GeneratorNodes
  <1>2. CASE n = "hallucination_check"
    <2>1. t \in marketing!hallucination_check(s) BY <1>2 DEF marketing!Returns
    <2>2. s.retry_count < 2 /\ ~IsScheduled(s) /\ L = {n}
      BY <1>2 DEF CampaignAt, Preparing, MarketingLayers, GeneratorNodes
    <2>3. t \in MarketingState /\ t.scheduled = s.scheduled /\ Seen(t)
      BY <2>1, <2>2, Audits
    <2>4. ~IsScheduled(t) BY <2>2, <2>3 DEF IsScheduled
    <2> QED BY <1>2, <2>2, <2>3, <2>4 DEF CampaignAt
  <1>3. CASE n = "launch_control_center"
    <2>1. t \in marketing!launch_control_center(s) BY <1>3 DEF marketing!Returns
    <2>2. PICK a \in {"none", "approved", "rejected", "partial", "unknown"},
               d \in marketing!Answers \cup {"timed_out", "unknown"},
               x \in SUBSET marketing!ContentTypes :
                 /\ t = [s EXCEPT !.answer = a, !.approval_status = d, !.approved = x]
                 /\ d \in {"approved", "partial"} /\ MustAnswer(s) => d \in {s.preset, a}
      BY <2>1, Decides
    <2>3. /\ t \in MarketingState /\ t.answer = a /\ t.approval_status = d
          /\ t.scheduled = s.scheduled /\ t.verdict = s.verdict /\ t.seen = s.seen
          /\ t.draft = s.draft /\ MustAnswer(t) = MustAnswer(s) /\ t.preset = s.preset
      BY <2>2 DEF MarketingState, MustAnswer
    <2>4. ~IsScheduled(s) /\ L = {n} /\ s.verdict # "critical" /\ Seen(s)
      BY <1>3 DEF CampaignAt, Preparing, MarketingLayers, GeneratorNodes
    <2>5. ~IsScheduled(t) /\ Seen(t) BY <2>3, <2>4 DEF IsScheduled, Seen
    <2> QED BY <1>3, <2>2, <2>3, <2>4, <2>5 DEF CampaignAt, Consented
  <1>4. CASE n = "schedule_posts"
    <2>1. PICK f \in Slots : t = [s EXCEPT !.scheduled = f]
      BY <1>4, Schedules DEF marketing!Returns
    <2>2. /\ t \in MarketingState /\ t.verdict = s.verdict /\ t.seen = s.seen
          /\ t.draft = s.draft /\ MustAnswer(t) = MustAnswer(s) /\ t.preset = s.preset /\ t.answer = s.answer
      BY <2>1 DEF MarketingState, MustAnswer
    <2>3. L = {n} BY <1>4 DEF MarketingLayers, GeneratorNodes
    <2> QED BY <1>4, <2>2, <2>3 DEF CampaignAt, Consented, Seen, Preparing, GeneratorNodes
  <1>5. CASE n \in {"ingest_input", "analyse_brand", "parallel_join", "render_gtm_report",
                    "error_handler"}
    <2>1. \/ t = s
          \/ \E f \in BOOLEAN : t = [s EXCEPT !.fatal_error = f]
          \/ \E f \in BOOLEAN : t = [s EXCEPT !.report = f]
      <3>1. n = "ingest_input" => t = [s EXCEPT !.fatal_error = ~s.valid]
        BY DEF marketing!Returns, marketing!ingest_input
      <3>2. n = "render_gtm_report" => t = [s EXCEPT !.report = TRUE]
        BY DEF marketing!Returns, marketing!render_gtm_report
      <3>3. n \in {"analyse_brand", "parallel_join", "error_handler"} => t = s
        BY DEF marketing!Returns, marketing!analyse_brand, marketing!error_handler
      <3> QED BY <1>5, <3>1, <3>2, <3>3
    <2>2. /\ t \in MarketingState /\ t.scheduled = s.scheduled /\ t.retry_count = s.retry_count
          /\ t.verdict = s.verdict /\ t.seen = s.seen /\ t.draft = s.draft /\ MustAnswer(t) = MustAnswer(s)
          /\ t.preset = s.preset /\ t.answer = s.answer /\ t.approval_status = s.approval_status
      BY <2>1 DEF MarketingState, MustAnswer
    <2> QED BY <1>5, <2>2 DEF CampaignAt, IsScheduled, Seen, Consented
  <1> QED BY <1>0, <1>1, <1>2, <1>3, <1>4, <1>5 DEF Preparing

\* A node of the marketing agent that returns keeps its invariant.
LEMMA MarketingReturnStep ==
    ASSUME MarketingInv, NEW n \in next, Returning(n), st' \in marketing!Returns(n, read, st)
    PROVE  MarketingInv'
  <1>1. RunTypes' BY RunTypesKept DEF MarketingInv
  <1>2. n \in next \ done /\ done' = done \cup {n} /\ next' = next BY DEF Returning
  <1>3. st' \in MarketingState /\ CampaignAt(st', next, done \cup {n})
    BY <1>2, CampaignReturned DEF MarketingInv, RunTypes
  <1>4. CampaignAt(st, next, done)'
    BY <1>2, <1>3 DEF CampaignAt, IsScheduled, Seen, Consented
  <1> QED BY <1>1, <1>2, <1>3, <1>4 DEF MarketingInv

\* Where the graph goes from a layer, and what is known of the campaign there.
LEMMA MarketingEdges ==
    ASSUME MarketingInv, next # {}, done = next
    PROVE  /\ marketing!Graph!Following \in MarketingLayers
           /\ CampaignAt(st, marketing!Graph!Following, {})
  <1>1. marketing!Graph!Following = UNION {marketing!Successors(m, st) : m \in next}
    BY DEF marketing!Graph!Following
  <1>2. next \in MarketingLayers /\ CampaignAt(st, next, next) /\ st \in MarketingState
    BY DEF MarketingInv
  <1> USE GeneratorsAre
  <1>3. CASE next = GeneratorNodes
    <2>1. marketing!Graph!Following = {"parallel_join"}
      BY <1>1, <1>3 DEF marketing!Successors, GeneratorNodes
    <2> QED BY <2>1, <1>2, <1>3 DEF MarketingLayers, CampaignAt, Preparing, GeneratorNodes
  <1>4. CASE \E n : next = {n}
    <2>1. PICK n : next = {n} BY <1>4
    <2>2. marketing!Graph!Following = marketing!Successors(n, st) BY <1>1, <2>1
    <2>3. \/ /\ n = "ingest_input"
             /\ marketing!Graph!Following \in {{"error_handler"}, {"analyse_brand"}}
          \/ n = "analyse_brand" /\ marketing!Graph!Following = GeneratorNodes
          \/ n = "generate_landing_page" /\ marketing!Graph!Following = {"parallel_join"}
          \/ n = "parallel_join" /\ marketing!Graph!Following = {"hallucination_check"}
          \/ /\ n = "hallucination_check"
             /\ \/ /\ marketing!Graph!Following = {"launch_control_center"}
                   /\ st.verdict # "critical"
                \/ /\ marketing!Graph!Following = {"generate_landing_page"}
                   /\ st.retry_count < 2
                \/ marketing!Graph!Following = {"error_handler"}
          \/ /\ n = "launch_control_center"
             /\ \/ /\ marketing!Graph!Following = {"schedule_posts"}
                   /\ st.approval_status \in {"approved", "partial"}
                \/ marketing!Graph!Following = {"error_handler"}
          \/ n = "schedule_posts" /\ marketing!Graph!Following = {"render_gtm_report"}
          \/ n \in {"render_gtm_report", "error_handler"} /\ marketing!Graph!Following = {}
      BY <1>2, <2>1, <2>2
      DEF marketing!Successors, marketing!route_after_ingest, marketing!route_after_hallucination,
          marketing!route_after_hitl, marketing!MaxHallucinationRetries, MarketingLayers,
          GeneratorNodes
    <2>4. marketing!Graph!Following \in MarketingLayers
      BY <2>3 DEF MarketingLayers
    <2> QED BY <1>2, <2>1, <2>3, <2>4 DEF CampaignAt, Preparing, GeneratorNodes
  <1> QED BY <1>2, <1>3, <1>4 DEF MarketingLayers

\* A next superstep of the marketing agent keeps its invariant.
LEMMA MarketingFollowStep ==
    ASSUME MarketingInv, Following(marketing!Graph!Following)
    PROVE  MarketingInv'
  <1>1. PICK following : following = marketing!Graph!Following OBVIOUS
  <1>2. Following(following) BY <1>1
  <1>3. done = next /\ st' = st /\ next' = following /\ done' = {} BY <1>2 DEF Following
  <1>4. RunTypes' BY <1>2, RunTypesKept DEF MarketingInv
  <1>5. next # {} BY <1>2 DEF MarketingInv, RunTypes, Following
  <1>6. following \in MarketingLayers /\ CampaignAt(st, following, {})
    BY <1>1, <1>3, <1>5, MarketingEdges
  <1>7. CampaignAt(st, next, done)' BY <1>3, <1>6 DEF CampaignAt, IsScheduled, Seen, Consented
  <1> QED BY <1>3, <1>4, <1>6, <1>7 DEF MarketingInv

\* Every step of the marketing agent keeps its invariant.
LEMMA MarketingStep == MarketingInv /\ [marketing!Next]_agentVars => MarketingInv'
  <1> SUFFICES ASSUME MarketingInv, [marketing!Next]_agentVars PROVE MarketingInv'
    OBVIOUS
  <1> USE DEF CampaignAt, IsScheduled, Seen, Consented
  <1>1. CASE \E n \in next : Returning(n) /\ st' \in marketing!Returns(n, read, st)
    BY <1>1, MarketingReturnStep
  <1>2. CASE Following(marketing!Graph!Following) BY <1>2, MarketingFollowStep
  <1>3. CASE Stopping(marketing!Graph!Following)
    <2>1. RunTypes' BY <1>3, RunTypesKept DEF MarketingInv
    <2>2. next' = {} /\ done' = {} /\ st' = st BY <1>3 DEF Stopping
    <2> QED BY <2>1, <2>2 DEF MarketingInv, MarketingLayers
  <1>4. CASE UNCHANGED agentVars
    <2>1. RunTypes' BY <1>4, RunTypesKept DEF MarketingInv, agentVars
    <2> QED BY <1>4, <2>1 DEF agentVars, MarketingInv
  <1> QED BY <1>1, <1>2, <1>3, <1>4, MarketingMoves

\* The marketing agent's invariant is as strong as its type and its promise.
LEMMA MarketingHolds ==
    MarketingInv => RunTypes /\ marketing!TypeOK /\ marketing!PublishedIsChecked
  <1> SUFFICES ASSUME MarketingInv PROVE marketing!TypeOK /\ marketing!PublishedIsChecked
    BY DEF MarketingInv
  <1>1. marketing!TypeOK
    BY DEF MarketingInv, MarketingState, Slots, marketing!TypeOK, marketing!MaxHallucinationRetries
  <1> QED BY <1>1 DEF MarketingInv, CampaignAt, IsScheduled, Seen, Consented, MustAnswer,
             marketing!PublishedIsChecked

-----------------------------------------------------------------------------
(* Induction: every set of numbers has a least one *)

\* Every nonempty set of natural numbers has a least member.
LEMMA LeastNatural ==
    ASSUME NEW S \in SUBSET Nat, S # {}
    PROVE  \E n \in S : \A m \in S : n <= m
  <1>1. PICK n \in S : \A m \in S : ~(<<m, n>> \in OpToRel(<, Nat))
    BY NatLessThanWellFounded, WFMin
  <1>2. \A m \in S : ~(m < n) BY <1>1 DEF OpToRel
  <1> QED BY <1>2

\* What holds of 0, and of each successor below b, holds up to b.
LEMMA UpTo ==
    ASSUME NEW b \in Nat, NEW S, 0 \in S, \A n \in 0..(b - 1) : n \in S => n + 1 \in S
    PROVE  0..b \subseteq S
  <1> SUFFICES ASSUME (0..b) \ S # {} PROVE FALSE
    OBVIOUS
  <1>1. (0..b) \ S \in SUBSET Nat OBVIOUS
  <1>2. PICK n \in (0..b) \ S : \A m \in (0..b) \ S : n <= m BY <1>1, LeastNatural
  <1>3. n # 0 /\ n - 1 \in 0..(b - 1) OBVIOUS
  <1>4. n - 1 \in S BY <1>2, <1>3
  <1>5. (n - 1) + 1 \in S BY <1>3, <1>4
  <1> QED BY <1>5

-----------------------------------------------------------------------------
(* The research agent *)

ResearchState ==
    [sources : research!SourceLists, ok : SUBSET research!AnySource,
     error : SUBSET research!AnySource, attempted : SUBSET {"tavily", "serpapi"},
     cited : SUBSET research!AnySource, partial : SUBSET research!AnySource,
     findings : research!Findings, groundedness_score : research!Scores,
     confidence : {"low", "medium", "high"}]

\* What the results of s may be collected to.
CollectedFrom(s) ==
    {t \in ResearchState :
        /\ t.sources = s.sources /\ t.ok = s.ok /\ t.error = s.error /\ t.findings = s.findings
        /\ t.cited # {} => t.ok \cup t.attempted # {}}

\* A run asks one source at least, and only those there are.
LEMMA SourceListsAre ==
    ASSUME NEW l \in research!SourceLists
    PROVE  /\ Len(l) \in Nat /\ \A i \in 1..Len(l) : l[i] \in research!AnySource
           /\ {l[i] : i \in DOMAIN l} \subseteq research!AnySource
           /\ {l[i] : i \in DOMAIN l} # {}
  BY DEF research!SourceLists, research!AllSources, research!AnySource

\* Collecting a source, or its fallback, keeps the results a collection of those of s.
LEMMA Adds ==
    ASSUME NEW s, NEW t \in CollectedFrom(s), NEW source \in research!AnySource,
           NEW u \in research!Add(source, t)
    PROVE  u \in CollectedFrom(s)
  <1>1. t \in ResearchState BY DEF CollectedFrom
  <1>2. \A c \in research!AnySource, v \in ResearchState, good \in BOOLEAN :
          /\ research!Collect(c, good, v) \in ResearchState
          /\ research!Collect(c, good, v).sources = v.sources
          /\ research!Collect(c, good, v).ok = v.ok
          /\ research!Collect(c, good, v).error = v.error
          /\ research!Collect(c, good, v).findings = v.findings
          /\ research!Collect(c, good, v).attempted = v.attempted
          /\ ~good => research!Collect(c, good, v).cited = v.cited
    BY DEF research!Collect, ResearchState
  <1>3. CASE source \in t.ok
    <2>1. u = research!Collect(source, TRUE, t) BY <1>3 DEF research!Add
    <2> QED BY <1>1, <1>2, <1>3, <2>1 DEF CollectedFrom
  <1>4. CASE source \notin t.ok /\ u = research!Collect(source, FALSE, t)
    BY <1>1, <1>2, <1>4 DEF CollectedFrom
  <1>5. CASE source \notin t.ok /\ u # research!Collect(source, FALSE, t)
    <2>1. PICK other : other = research!Fallback[source] OBVIOUS
    <2>2. PICK tried : tried = [t EXCEPT !.attempted = @ \cup {other}] OBVIOUS
    <2>3. /\ source \in DOMAIN research!Fallback
          /\ u \in {research!Collect(other, TRUE, tried), research!Collect(source, FALSE, tried)}
      BY <1>5, <2>1, <2>2 DEF research!Add
    <2>4. other \in {"tavily", "serpapi"} /\ other \in research!AnySource
      BY <2>1, <2>3 DEF research!Fallback, research!AnySource, research!AllSources
    <2>5. /\ tried \in ResearchState /\ tried.sources = t.sources /\ tried.ok = t.ok
          /\ tried.error = t.error /\ tried.findings = t.findings /\ tried.cited = t.cited
          /\ other \in tried.attempted
      BY <1>1, <2>2, <2>4 DEF ResearchState
    <2>6. tried \in CollectedFrom(s) BY <2>5 DEF CollectedFrom
    <2>7. \A c \in {other, source}, good \in BOOLEAN :
            research!Collect(c, good, tried) \in CollectedFrom(s)
      BY <1>2, <2>4, <2>5 DEF CollectedFrom
    <2> QED BY <2>3, <2>7
  <1> QED BY <1>3, <1>4, <1>5

\* The loop of cross_fallback is well defined.
LEMMA LoopIsDefined ==
    ASSUME NEW s, s.sources \in research!SourceLists
    PROVE  \E f : f = [i \in 0..Len(s.sources) |->
                         IF i = 0 THEN {s}
                         ELSE UNION {research!Add(s.sources[i], t) : t \in f[i - 1]}]
  <1> DEFINE Body(f, i) == IF i = 0 THEN {s}
                           ELSE UNION {research!Add(s.sources[i], t) : t \in f[i - 1]}
             Loop(n) == \E f : f = [i \in 0..n |-> Body(f, i)]
             Defined == {n \in Nat : Loop(n)}
  <1>a. \A f, g, i : i = 0 \/ f[i - 1] = g[i - 1] => Body(f, i) = Body(g, i) OBVIOUS
  <1>b. Loop(Len(s.sources)) =>
          \E f : f = [i \in 0..Len(s.sources) |->
                        IF i = 0 THEN {s}
                        ELSE UNION {research!Add(s.sources[i], t) : t \in f[i - 1]}]
    OBVIOUS
  <1> HIDE DEF Body
  <1>1. Loop(0)
    <2>1. PICK f : f = [i \in 0..0 |-> Body(s, i)] OBVIOUS
    <2>2. \A i \in 0..0 : f[i] = Body(f, i) BY <1>a, <2>1
    <2>3. f = [i \in 0..0 |-> Body(f, i)] BY <2>1, <2>2
    <2> QED BY <2>3
  <1>2. ASSUME NEW n \in Nat, Loop(n) PROVE Loop(n + 1)
    <2>1. PICK f : f = [i \in 0..n |-> Body(f, i)] BY <1>2
    <2>2. PICK g : g = [i \in 0..(n + 1) |-> IF i = n + 1 THEN Body(f, i) ELSE f[i]] OBVIOUS
    <2>3. \A i \in 0..n : g[i] = f[i] /\ f[i] = Body(f, i) BY <2>1, <2>2
    <2>4. \A i \in 0..(n + 1) : i = 0 \/ g[i - 1] = f[i - 1] BY <2>3
    <2>5. \A i \in 0..(n + 1) : g[i] = Body(f, i) BY <2>2, <2>3
    <2>6. \A i \in 0..(n + 1) : g[i] = Body(g, i) BY <1>a, <2>4, <2>5
    <2>7. g = [i \in 0..(n + 1) |-> Body(g, i)] BY <2>2, <2>6
    <2> QED BY <2>7
  <1>3. Len(s.sources) \in Nat BY SourceListsAre
  <1> HIDE DEF Loop
  <1>4. 0 \in Defined /\ \A n \in 0..(Len(s.sources) - 1) : n \in Defined => n + 1 \in Defined
    BY <1>1, <1>2, <1>3
  <1>5. 0..Len(s.sources) \subseteq Defined BY <1>3, <1>4, UpTo
  <1>6. Loop(Len(s.sources)) BY <1>3, <1>5
  <1> QED BY <1>b, <1>6

\* Falling back leaves the answers of the sources as they were.
LEMMA CrossFallback ==
    ASSUME NEW s \in ResearchState, s.cited = {}, NEW u \in research!cross_fallback(s)
    PROVE  u \in CollectedFrom(s)
  <1> DEFINE after[i \in 0..Len(s.sources)] ==
               IF i = 0 THEN {s}
               ELSE UNION {research!Add(s.sources[i], t) : t \in after[i - 1]}
  <1>1. u \in after[Len(s.sources)] BY DEF research!cross_fallback
  <1>2. s.sources \in research!SourceLists BY DEF ResearchState
  <1>3. after = [i \in 0..Len(s.sources) |->
                   IF i = 0 THEN {s}
                   ELSE UNION {research!Add(s.sources[i], t) : t \in after[i - 1]}]
    BY <1>2, LoopIsDefined
  <1> HIDE DEF after
  <1> DEFINE Good == {i \in 0..Len(s.sources) : after[i] \subseteq CollectedFrom(s)}
  <1>4. Len(s.sources) \in Nat BY <1>2, SourceListsAre
  <1>5. 0 \in Good
    <2>1. after[0] = {s} BY <1>3, <1>4
    <2>2. s \in CollectedFrom(s) BY DEF CollectedFrom
    <2> QED BY <2>1, <2>2, <1>4
  <1>6. ASSUME NEW n \in 0..(Len(s.sources) - 1), n \in Good PROVE n + 1 \in Good
    <2>1. n + 1 \in 0..Len(s.sources) /\ n + 1 # 0 /\ (n + 1) - 1 = n
          /\ n + 1 \in 1..Len(s.sources)
      BY <1>4
    <2>2. after[n + 1] = UNION {research!Add(s.sources[n + 1], t) : t \in after[n]}
      BY <1>3, <2>1
    <2>3. s.sources[n + 1] \in research!AnySource BY <1>2, <2>1, SourceListsAre
    <2>4. after[n] \subseteq CollectedFrom(s) BY <1>6
    <2>5. after[n + 1] \subseteq CollectedFrom(s) BY <2>2, <2>3, <2>4, Adds
    <2> QED BY <2>1, <2>5
  <1>7. 0..Len(s.sources) \subseteq Good BY <1>4, <1>5, <1>6, UpTo
  <1>8. Len(s.sources) \in Good BY <1>4, <1>7
  <1> QED BY <1>1, <1>8

\* The sources, as the model names them.
LEMMA AnySourceIs ==
    research!AnySource = {"tavily", "serpapi", "crunchbase", "g2", "similarweb"}
  BY DEF research!AnySource, research!AllSources

\* The sources that s asks.
SourcesOf(s) == {s.sources[i] : i \in DOMAIN s.sources}

\* What is known of state s in the superstep of the nodes in layer, of which those in
\* finished have returned.
ResultsAt(s, layer, finished) ==
    /\ layer \in {{}, {"fan_out"}, SourcesOf(s), {"cross_fallback"}, {"_synthesise"}}
    /\ s.ok \subseteq SourcesOf(s) /\ s.error \subseteq SourcesOf(s) \ s.ok
    /\ "fan_out" \in layer => s.ok \cup s.error = {}
    /\ layer \cap research!AnySource # {} => s.ok \cup s.error \subseteq finished
    /\ "_synthesise" \notin layer /\ layer # {} /\ "cross_fallback" \notin finished
       => s.cited = {}
    /\ s.cited # {} => s.ok \cup s.attempted # {}
    /\ s.findings.by # "nobody" => s.cited # {}

\* The results are of the sources asked, and the score is of the findings.
ResearchInv ==
    /\ RunTypes
    /\ st \in ResearchState
    /\ ResultsAt(st, next, done)
    /\ status = "returned" =>
         /\ st.groundedness_score = research!score_groundedness(st.findings)
         /\ st.confidence = research!confidence_band(st.groundedness_score)

\* Every step of the research agent is one that any run may make.
LEMMA ResearchMoves ==
    ASSUME research!Next
    PROVE  \/ \E n \in next : Returning(n) /\ st' \in research!Returns(n, read, st)
           \/ Stopping(research!Graph!Following)
           \/ Following(research!Graph!Following)
           \/ Verifying /\ research!verify
  BY LimitsAssumption
  DEF research!Next, research!Graph!Step, research!Graph!superstep,
     research!Graph!limit_reached, research!Graph!end_reached,
     research!Graph!node_returns, research!Graph!node_raises, research!Graph!abandoned,
     research!Graph!Stop, research!verify, Returning, Stopping, Following, Verifying

\* The research agent's initial states satisfy its invariant.
LEMMA ResearchInit == research!Init => ResearchInv
  <1> SUFFICES ASSUME NEW list \in research!SourceLists,
                      research!Graph!Start(research!Initial(list))
               PROVE  ResearchInv
    BY DEF research!Init
  <1>1. /\ status = "running" /\ steps = 1 /\ next = {"fan_out"} /\ done = {}
        /\ st = research!Initial(list)
    BY DEF research!Graph!Start
  <1>2. RunTypes BY <1>1, LimitsAssumption DEF RunTypes
  <1>3. st \in ResearchState
    BY <1>1 DEF research!Initial, ResearchState, research!Findings, research!Scores
  <1>4. ResultsAt(st, next, done)
    BY <1>1, AnySourceIs DEF ResultsAt, research!Initial
  <1> QED BY <1>1, <1>2, <1>3, <1>4 DEF ResearchInv

\* A node that returns keeps what is known of the results, and adds its part to it.
LEMMA ResultsReturned ==
    ASSUME NEW s \in ResearchState, NEW L, NEW finished \in SUBSET L,
           NEW n \in L \ finished, NEW r, NEW t \in research!Returns(n, r, s),
           ResultsAt(s, L, finished)
    PROVE  t \in ResearchState /\ ResultsAt(t, L, finished \cup {n})
  <1>1. SourcesOf(s) \subseteq research!AnySource /\ SourcesOf(s) # {}
    BY SourceListsAre DEF SourcesOf, ResearchState
  <1>2. n \in {"fan_out", "cross_fallback", "_synthesise"} \cup research!AnySource
    BY <1>1 DEF ResultsAt
  <1>3. CASE n \in research!AnySource
    <2>1. \/ t = [s EXCEPT !.ok = @ \cup {n}]
          \/ t = [s EXCEPT !.error = @ \cup {n}]
      BY <1>3, AnySourceIs DEF research!Returns, research!_call_one
    <2>2. /\ t \in ResearchState /\ t.sources = s.sources /\ t.cited = s.cited
          /\ t.attempted = s.attempted /\ t.findings = s.findings
          /\ \/ t.ok = s.ok \cup {n} /\ t.error = s.error
             \/ t.ok = s.ok /\ t.error = s.error \cup {n}
      BY <1>3, <2>1 DEF ResearchState
    <2>3. L = SourcesOf(s) /\ n \notin s.ok \cup s.error /\ SourcesOf(t) = SourcesOf(s)
      BY <1>1, <1>3, <2>2, AnySourceIs DEF ResultsAt, SourcesOf
    <2> QED BY <1>1, <1>3, <2>2, <2>3, AnySourceIs DEF ResultsAt
  <1>4. CASE n = "cross_fallback"
    <2>1. L = {"cross_fallback"} /\ s.cited = {}
      BY <1>1, <1>4, AnySourceIs DEF ResultsAt
    <2>2. t \in CollectedFrom(s)
      BY <1>4, <2>1, CrossFallback, AnySourceIs DEF research!Returns
    <2>3. SourcesOf(t) = SourcesOf(s) BY <2>2 DEF SourcesOf, CollectedFrom
    <2> QED BY <1>4, <2>1, <2>2, <2>3, AnySourceIs DEF ResultsAt, CollectedFrom
  <1>5. CASE n = "_synthesise"
    <2>1. t \in research!Synthesised(s)
      BY <1>5, AnySourceIs DEF research!Returns
    <2>2. PICK f \in research!_synthesise(s, "first") : t = [s EXCEPT !.findings = f]
      BY <2>1 DEF research!Synthesised
    <2>3. f \in research!Findings /\ (f.by # "nobody" => s.cited # {})
      BY <2>2 DEF research!_synthesise, research!Findings
    <2>4. /\ t \in ResearchState /\ t.sources = s.sources /\ t.cited = s.cited
          /\ t.attempted = s.attempted /\ t.findings = f /\ t.ok = s.ok /\ t.error = s.error
      BY <2>2, <2>3 DEF ResearchState
    <2>5. L = {"_synthesise"} /\ SourcesOf(t) = SourcesOf(s)
      BY <1>1, <1>5, <2>4, AnySourceIs DEF ResultsAt, SourcesOf
    <2> QED BY <1>5, <2>3, <2>4, <2>5, AnySourceIs DEF ResultsAt
  <1>6. CASE n = "fan_out"
    <2>1. t = s BY <1>6, AnySourceIs DEF research!Returns
    <2>2. L = {"fan_out"} BY <1>1, <1>6, AnySourceIs DEF ResultsAt
    <2> QED BY <2>1, <2>2, AnySourceIs DEF ResultsAt
  <1> QED BY <1>2, <1>3, <1>4, <1>5, <1>6

\* A node of the research agent that returns keeps its invariant.
LEMMA ResearchReturnStep ==
    ASSUME ResearchInv, NEW n \in next, Returning(n), st' \in research!Returns(n, read, st)
    PROVE  ResearchInv'
  <1>1. RunTypes' BY RunTypesKept DEF ResearchInv
  <1>2. n \in next \ done /\ done' = done \cup {n} /\ next' = next /\ status' = "running"
    BY DEF Returning
  <1>3. st' \in ResearchState /\ ResultsAt(st', next, done \cup {n})
    BY <1>2, ResultsReturned DEF ResearchInv, RunTypes
  <1>4. ResultsAt(st, next, done)'
    BY <1>2, <1>3 DEF ResultsAt, SourcesOf
  <1> QED BY <1>1, <1>2, <1>3, <1>4 DEF ResearchInv

\* Where the graph goes from a layer, and what is known of the results there.
LEMMA ResearchEdges ==
    ASSUME ResearchInv, next # {}, done = next
    PROVE  ResultsAt(st, research!Graph!Following, {})
  <1>1. research!Graph!Following = UNION {research!Successors(m, st) : m \in next}
    BY DEF research!Graph!Following
  <1>2. ResultsAt(st, next, next) /\ st \in ResearchState BY DEF ResearchInv
  <1>3. SourcesOf(st) \subseteq research!AnySource /\ SourcesOf(st) # {}
    BY <1>2, SourceListsAre DEF SourcesOf, ResearchState
  <1>4. CASE next = {"fan_out"}
    <2>1. research!Graph!Following = SourcesOf(st)
      <3>1. research!Successors("fan_out", st) = research!Sources(st)
        BY AnySourceIs DEF research!Successors
      <3>2. research!Sources(st) = SourcesOf(st) BY DEF research!Sources, SourcesOf
      <3> QED BY <1>1, <1>4, <3>1, <3>2
    <2> QED BY <2>1, <1>2, <1>3, <1>4, AnySourceIs DEF ResultsAt
  <1>5. CASE next = SourcesOf(st)
    <2>1. \A n \in next : research!Successors(n, st) = {"cross_fallback"}
      BY <1>3, <1>5, AnySourceIs DEF research!Successors
    <2>2. research!Graph!Following = {"cross_fallback"} BY <1>1, <1>3, <1>5, <2>1
    <2> QED BY <2>2, <1>2, <1>3, <1>5, AnySourceIs DEF ResultsAt
  <1>6. CASE next \in {{"cross_fallback"}, {"_synthesise"}}
    <2>1. \/ next = {"cross_fallback"} /\ research!Graph!Following = {"_synthesise"}
          \/ research!Graph!Following = {}
      BY <1>1, <1>6, AnySourceIs DEF research!Successors
    <2> QED BY <2>1, <1>2, <1>3, <1>6, AnySourceIs DEF ResultsAt
  <1> QED BY <1>2, <1>4, <1>5, <1>6 DEF ResultsAt

\* A next superstep of the research agent keeps its invariant.
LEMMA ResearchFollowStep ==
    ASSUME ResearchInv, Following(research!Graph!Following)
    PROVE  ResearchInv'
  <1>1. PICK following : following = research!Graph!Following OBVIOUS
  <1>2. Following(following) BY <1>1
  <1>3. done = next /\ st' = st /\ next' = following /\ done' = {} /\ status' = "running"
    BY <1>2 DEF Following
  <1>4. RunTypes' BY <1>2, RunTypesKept DEF ResearchInv
  <1>5. next # {} BY <1>2 DEF ResearchInv, RunTypes, Following
  <1>6. ResultsAt(st, following, {}) BY <1>1, <1>3, <1>5, ResearchEdges
  <1>7. ResultsAt(st, next, done)' BY <1>3, <1>6 DEF ResultsAt, SourcesOf
  <1> QED BY <1>3, <1>4, <1>6, <1>7 DEF ResearchInv

\* Scoring writes the findings, their score and its band, and nothing else.
LEMMA Scored ==
    ASSUME NEW s \in ResearchState, NEW f \in research!Findings, NEW x \in research!Scores
    PROVE  LET t == research!Score(f, x, s)
           IN  /\ t \in ResearchState /\ t.sources = s.sources /\ t.cited = s.cited
               /\ t.attempted = s.attempted /\ t.findings = f /\ t.ok = s.ok
               /\ t.error = s.error /\ t.groundedness_score = x
               /\ t.confidence = research!confidence_band(x)
  <1>1. PICK b : b = research!confidence_band(x) OBVIOUS
  <1>2. b \in {"low", "medium", "high"} BY <1>1 DEF research!confidence_band
  <1> QED BY <1>1, <1>2 DEF research!Score, ResearchState

\* Verifying returns the findings with their own score.
LEMMA ResearchVerifyStep ==
    ASSUME ResearchInv, Verifying, research!verify
    PROVE  ResearchInv'
  <1>1. RunTypes' BY RunTypesKept DEF ResearchInv
  <1>2. /\ next = {} /\ next' = {} /\ done' = done /\ st \in ResearchState
        /\ ResultsAt(st, next, done)
    BY DEF Verifying, ResearchInv, RunTypes
  <1>3. CASE status' = "failed" /\ st' = st
    BY <1>1, <1>2, <1>3 DEF ResearchInv, ResultsAt, SourcesOf
  <1>4. CASE \E f \in research!Findings :
               /\ f.by # "nobody" => st.cited # {}
               /\ st' = research!Score(f, research!score_groundedness(f), st)
    <2>1. PICK f \in research!Findings :
               /\ f.by # "nobody" => st.cited # {}
               /\ st' = research!Score(f, research!score_groundedness(f), st)
      BY <1>4
    <2>2. research!score_groundedness(f) \in research!Scores
      BY DEF research!score_groundedness, research!Findings, research!Scores
    <2>3. /\ st' \in ResearchState /\ st'.sources = st.sources /\ st'.cited = st.cited
          /\ st'.attempted = st.attempted /\ st'.findings = f /\ st'.ok = st.ok
          /\ st'.error = st.error /\ st'.groundedness_score = research!score_groundedness(f)
          /\ st'.confidence = research!confidence_band(research!score_groundedness(f))
      BY <1>2, <2>1, <2>2, Scored
    <2>4. ResultsAt(st, next, done)' BY <1>2, <2>1, <2>3 DEF ResultsAt, SourcesOf
    <2> QED BY <1>1, <2>3, <2>4 DEF ResearchInv
  <1>5. /\ st.findings \in research!Findings
        /\ st.findings.by # "nobody" => st.cited # {}
    BY <1>2 DEF ResearchState, ResultsAt
  <1>6. CASE \E retried \in research!_synthesise(st, "retry") :
               st' = research!better_of(retried, st)
    <2>1. PICK retried \in research!_synthesise(st, "retry") :
               st' = research!better_of(retried, st)
      BY <1>6
    <2>2. retried \in research!Findings /\ (retried.by # "nobody" => st.cited # {})
      BY <2>1 DEF research!_synthesise, research!Findings
    <2>3. \/ st' = research!Score(retried, research!score_groundedness(retried), st)
          \/ st' = research!Score(st.findings, research!score_groundedness(st.findings), st)
      BY <2>1 DEF research!better_of
    <2> QED BY <1>4, <1>5, <2>2, <2>3
  <1> QED BY <1>3, <1>4, <1>5, <1>6 DEF research!verify

\* Every step of the research agent keeps its invariant.
LEMMA ResearchStep == ResearchInv /\ [research!Next]_agentVars => ResearchInv'
  <1> SUFFICES ASSUME ResearchInv, [research!Next]_agentVars PROVE ResearchInv'
    OBVIOUS
  <1>1. CASE \E n \in next : Returning(n) /\ st' \in research!Returns(n, read, st)
    BY <1>1, ResearchReturnStep
  <1>2. CASE Following(research!Graph!Following) BY <1>2, ResearchFollowStep
  <1>3. CASE Stopping(research!Graph!Following)
    <2>1. RunTypes' BY <1>3, RunTypesKept DEF ResearchInv
    <2>2. next' = {} /\ done' = {} /\ st' = st /\ status' # "returned" BY <1>3 DEF Stopping
    <2>3. ResultsAt(st, next, done)' BY <2>2 DEF ResearchInv, ResultsAt, SourcesOf
    <2> QED BY <2>1, <2>2, <2>3 DEF ResearchInv
  <1>4. CASE Verifying /\ research!verify BY <1>4, ResearchVerifyStep
  <1>5. CASE UNCHANGED agentVars
    <2>1. RunTypes' BY <1>5, RunTypesKept DEF ResearchInv, agentVars
    <2>2. ResultsAt(st, next, done)' BY <1>5 DEF agentVars, ResearchInv, ResultsAt, SourcesOf
    <2> QED BY <1>5, <2>1, <2>2 DEF agentVars, ResearchInv
  <1> QED BY <1>1, <1>2, <1>3, <1>4, <1>5, ResearchMoves

\* The research agent's invariant is as strong as its type and its promise.
LEMMA ResearchHolds ==
    ResearchInv => RunTypes /\ research!TypeOK /\ research!ScoreIsOfTheFindings
  <1> SUFFICES ASSUME ResearchInv PROVE research!TypeOK /\ research!ScoreIsOfTheFindings
    BY DEF ResearchInv
  <1>1. research!TypeOK
    BY DEF ResearchInv, ResearchState, ResultsAt, SourcesOf, research!TypeOK, research!Sources
  <1> QED BY <1>1 DEF ResearchInv, ResultsAt, research!ScoreIsOfTheFindings

-----------------------------------------------------------------------------
(* The product planner *)

\* The stages of the planner.
PlannerNodes ==
    {"_generate_prd", "_extract_requirements", "_generate_user_stories", "_build_roadmap",
     "persist_prd"}

PlannerState ==
    [prd : BOOLEAN, requirements : planner!Requirements, user_stories : planner!Stories,
     roadmap_of : planner!Stories, markdown_of : planner!Requirements \X planner!Stories,
     persisted : BOOLEAN, coverage_score : planner!CoverageScores,
     confidence : {"low", "medium", "high"}]

PlannerInv == RunTypes /\ next \subseteq PlannerNodes /\ st \in PlannerState

\* Every step of the planner is one that any run may make.
LEMMA PlannerMoves ==
    ASSUME planner!Next
    PROVE  \/ \E n \in next : Returning(n) /\ st' \in planner!Returns(n, read, st)
           \/ Stopping(planner!Graph!Following)
           \/ Following(planner!Graph!Following)
           \/ Verifying /\ planner!verify
  BY LimitsAssumption
  DEF planner!Next, planner!Graph!Step, planner!Graph!superstep,
     planner!Graph!limit_reached, planner!Graph!end_reached,
     planner!Graph!node_returns, planner!Graph!node_raises, planner!Graph!abandoned,
     planner!Graph!Stop, planner!verify, Returning, Stopping, Following, Verifying

\* The planner's initial states satisfy its invariant.
LEMMA PlannerInit == planner!Init => PlannerInv
  <1> SUFFICES ASSUME planner!Graph!Start(planner!Initial) PROVE PlannerInv
    BY DEF planner!Init
  <1>1. /\ status = "running" /\ steps = 1 /\ next = {"_generate_prd"} /\ done = {}
        /\ st = planner!Initial
    BY DEF planner!Graph!Start
  <1>2. RunTypes BY <1>1, LimitsAssumption DEF RunTypes
  <1>3. st \in PlannerState
    BY <1>1 DEF planner!Initial, PlannerState, planner!Requirements, planner!Stories,
       planner!CoverageScores
  <1> QED BY <1>1, <1>2, <1>3 DEF PlannerInv, PlannerNodes

\* A coverage is of sixths, whatever the requirements and the stories.
LEMMA CoverageIsInSixths ==
    ASSUME NEW s PROVE planner!_compute_coverage(s) \in planner!CoverageScores
  <1>1. PICK q, u : q = s.requirements /\ u = s.user_stories OBVIOUS
  <1>2. planner!score_coverage(q, u) \in 0..6
    <2>1. CASE u = "anchored" BY <2>1 DEF planner!score_coverage
    <2>2. CASE u = "partly" BY <2>2 DEF planner!score_coverage
    <2>3. CASE u # "anchored" /\ u # "partly" BY <2>3 DEF planner!score_coverage
    <2> QED BY <2>1, <2>2, <2>3
  <1> QED BY <1>1, <1>2 DEF planner!_compute_coverage, planner!CoverageScores

\* A plan that is scored has its type.
LEMMA ScoredPlan ==
    ASSUME NEW s \in PlannerState, NEW c \in planner!CoverageScores
    PROVE  planner!Score(c, s) \in PlannerState
  <1>1. PICK b \in {"low", "medium", "high"} : planner!confidence_band(c) = b
    BY DEF planner!confidence_band
  <1>2. planner!Score(c, s) = [s EXCEPT !.coverage_score = c, !.confidence = b]
    BY <1>1 DEF planner!Score
  <1> QED BY <1>2 DEF PlannerState

\* A plan that is rendered has its type.
LEMMA RenderedPlan ==
    ASSUME NEW s \in PlannerState PROVE planner!Render(s) \in PlannerState
  BY DEF planner!Render, PlannerState

\* Each stage keeps the plan's type.
LEMMA PlannerStages ==
    ASSUME NEW n \in PlannerNodes, NEW s \in PlannerState, NEW r, NEW t \in planner!Returns(n, r, s)
    PROVE  t \in PlannerState
  <1>1. CASE n = "_generate_prd"
    <2>1. t = [s EXCEPT !.prd = TRUE] BY <1>1 DEF planner!Returns, planner!_generate_prd
    <2> QED BY <2>1 DEF PlannerState
  <1>2. CASE n = "_extract_requirements"
    <2>1. PICK q \in planner!Requirements : t = [s EXCEPT !.requirements = q]
      BY <1>2 DEF planner!Returns, planner!_extract_requirements
    <2> QED BY <2>1 DEF PlannerState
  <1>3. CASE n = "_generate_user_stories"
    <2>1. PICK u \in planner!Stories : t = [s EXCEPT !.user_stories = u]
      BY <1>3 DEF planner!Returns, planner!_generate_user_stories
    <2> QED BY <2>1 DEF PlannerState
  <1>4. CASE n = "_build_roadmap"
    <2>1. t = [s EXCEPT !.roadmap_of = s.user_stories]
      BY <1>4 DEF planner!Returns, planner!_build_roadmap
    <2> QED BY <2>1 DEF PlannerState
  <1>5. CASE n = "persist_prd"
    <2>1. PICK p \in BOOLEAN : t = [planner!Render(s) EXCEPT !.persisted = p]
      BY <1>5 DEF planner!Returns, planner!persist_prd
    <2>2. PICK v \in PlannerState : v = planner!Render(s) BY RenderedPlan
    <2> QED BY <2>1, <2>2 DEF PlannerState
  <1> QED BY <1>1, <1>2, <1>3, <1>4, <1>5 DEF PlannerNodes

\* Verifying keeps the plan's type, whether it retries or not.
LEMMA PlannerVerified ==
    ASSUME PlannerInv, planner!verify PROVE st' \in PlannerState
  <1>1. st \in PlannerState BY DEF PlannerInv
  <1>2. CASE st' = planner!Score(planner!_compute_coverage(st), st)
    BY <1>1, <1>2, CoverageIsInSixths, ScoredPlan
  <1>3. CASE \E t \in planner!_retry_generation(st) :
                 st' = planner!Patch(planner!_compute_coverage(st), t)
    <2>1. PICK t \in planner!_retry_generation(st) :
            st' = planner!Patch(planner!_compute_coverage(st), t)
      BY <1>3
    <2>2. PICK q \in {st.requirements} \cup (planner!Requirements \ {"none"}) :
            \E u \in {st.user_stories} \cup (planner!Stories \ {"none"}) :
                t = [st EXCEPT !.requirements = q, !.user_stories = u]
      BY Zenon DEF planner!_retry_generation
    <2>3. PICK u \in planner!Stories : t = [st EXCEPT !.requirements = q, !.user_stories = u]
      BY <1>1, <2>2 DEF PlannerState
    <2>4. q \in planner!Requirements BY <1>1 DEF PlannerState
    <2>5. t \in PlannerState BY <1>1, <2>3, <2>4 DEF PlannerState
    <2>6. \/ st' = planner!Score(planner!_compute_coverage(t), planner!Render(t))
          \/ st' = planner!Score(planner!_compute_coverage(st), t)
      BY <2>1 DEF planner!Patch
    <2> QED BY <2>5, <2>6, CoverageIsInSixths, RenderedPlan, ScoredPlan
  <1> QED BY <1>1, <1>2, <1>3 DEF planner!verify

\* Every step of the planner keeps its invariant.
LEMMA PlannerStep == PlannerInv /\ [planner!Next]_agentVars => PlannerInv'
  <1> SUFFICES ASSUME PlannerInv, [planner!Next]_agentVars PROVE PlannerInv'
    OBVIOUS
  <1>1. ASSUME NEW n \in next, Returning(n), st' \in planner!Returns(n, read, st)
        PROVE  PlannerInv'
    <2>1. RunTypes' BY <1>1, RunTypesKept DEF PlannerInv
    <2>2. st' \in PlannerState BY <1>1, PlannerStages DEF PlannerInv
    <2> QED BY <1>1, <2>1, <2>2 DEF Returning, PlannerInv
  <1>2. CASE Following(planner!Graph!Following)
    <2>1. PICK following : following = planner!Graph!Following OBVIOUS
    <2>2. RunTypes' BY <1>2, RunTypesKept DEF PlannerInv
    <2>3. following \subseteq PlannerNodes
      BY <2>1 DEF planner!Graph!Following, planner!Successors, PlannerInv, PlannerNodes
    <2> QED BY <1>2, <2>1, <2>2, <2>3 DEF Following, PlannerInv
  <1>3. CASE Stopping(planner!Graph!Following)
    <2>1. RunTypes' BY <1>3, RunTypesKept DEF PlannerInv
    <2> QED BY <1>3, <2>1 DEF Stopping, PlannerInv
  <1>4. CASE Verifying /\ planner!verify
    <2>1. RunTypes' BY <1>4, RunTypesKept DEF PlannerInv
    <2> QED BY <1>4, <2>1, PlannerVerified DEF Verifying, PlannerInv
  <1>5. CASE UNCHANGED agentVars
    <2>1. RunTypes' BY <1>5, RunTypesKept DEF PlannerInv, agentVars
    <2> QED BY <1>5, <2>1 DEF agentVars, PlannerInv
  <1> QED BY <1>1, <1>2, <1>3, <1>4, <1>5, PlannerMoves

\* The planner's invariant is as strong as its type.
LEMMA PlannerHolds == PlannerInv => RunTypes /\ planner!TypeOK
  BY DEF PlannerInv, PlannerState, planner!TypeOK

-----------------------------------------------------------------------------
(* The coder *)

\* The stages of the coder.
CoderNodes ==
    {"_generate_backend", "_generate_frontend", "_generate_config", "_generate_tests", "output"}

CoderFiles == 0..80
CoderLines == 0..2000
CoderConfidence == {"low", "medium", "high"}
CoderWarnings == SUBSET {"no_files", "no_main", "empty", "low_volume"}

CoderState ==
    [part : [coder!Parts -> coder!Volumes], has_main : BOOLEAN, summarised : coder!Volumes,
     total_files : CoderFiles, total_lines : CoderLines, confidence : CoderConfidence,
     warnings : CoderWarnings]

MainIsAmongFiles(s) == s.has_main => s.part["backend_files"].files > 0

CoderInv ==
    RunTypes /\ next \subseteq CoderNodes /\ st \in CoderState /\ MainIsAmongFiles(st)

\* Every step of the coder is one that any run may make.
LEMMA CoderMoves ==
    ASSUME coder!Next
    PROVE  \/ \E n \in next : Returning(n) /\ st' \in coder!Returns(n, read, st)
           \/ Stopping(coder!Graph!Following)
           \/ Following(coder!Graph!Following)
           \/ Verifying /\ coder!verify
  BY LimitsAssumption
  DEF coder!Next, coder!Graph!Step, coder!Graph!superstep,
     coder!Graph!limit_reached, coder!Graph!end_reached,
     coder!Graph!node_returns, coder!Graph!node_raises, coder!Graph!abandoned,
     coder!Graph!Stop, coder!verify, Returning, Stopping, Following, Verifying

\* The coder's initial states satisfy its invariant.
LEMMA CoderInit == coder!Init => CoderInv
  <1> SUFFICES ASSUME coder!Graph!Start(coder!Initial) PROVE CoderInv
    BY DEF coder!Init
  <1>1. /\ status = "running" /\ steps = 1 /\ next = {"_generate_backend"} /\ done = {}
        /\ st = coder!Initial
    BY DEF coder!Graph!Start
  <1>2. RunTypes BY <1>1, LimitsAssumption DEF RunTypes
  <1>3. coder!Nothing \in coder!Volumes BY DEF coder!Nothing, coder!Volumes
  <1>4. st \in CoderState /\ ~st.has_main
    BY <1>1, <1>3
    DEF coder!Initial, CoderState, CoderFiles, CoderLines, CoderConfidence, CoderWarnings
  <1> QED BY <1>1, <1>2, <1>4 DEF CoderInv, CoderNodes, MainIsAmongFiles

\* Generating a part changes that part only.
LEMMA GeneratedPart ==
    ASSUME NEW s \in CoderState, NEW p \in coder!Parts, NEW t \in coder!Generate(p, s)
    PROVE  /\ t \in CoderState /\ t.has_main = s.has_main
           /\ p # "backend_files" => t.part["backend_files"] = s.part["backend_files"]
  <1>1. PICK v \in coder!Volumes : t = [s EXCEPT !.part[p] = v] BY DEF coder!Generate
  <1>0. s.part \in [coder!Parts -> coder!Volumes] BY DEF CoderState
  <1>2. PICK part \in [coder!Parts -> coder!Volumes] : part = [s.part EXCEPT ![p] = v]
    BY <1>0
  <1>3. t = [s EXCEPT !.part = part] BY <1>1, <1>2
  <1>4. t \in CoderState /\ t.part = part /\ t.has_main = s.has_main
    BY <1>2, <1>3 DEF CoderState
  <1>5. p # "backend_files" => part["backend_files"] = s.part["backend_files"]
    BY <1>0, <1>2 DEF coder!Parts
  <1> QED BY <1>4, <1>5

\* No stage brings more than this.
LEMMA VolumeBounds ==
    ASSUME NEW v \in coder!Volumes PROVE v.files \in 0..20 /\ v.lines \in 0..500
  BY DEF coder!Volumes

\* The totals of four stages are within their bounds.
LEMMA TotalledOutput ==
    ASSUME NEW s \in CoderState, NEW t \in coder!output(s)
    PROVE  t \in CoderState /\ t.part = s.part /\ t.has_main = s.has_main
  <1>1. PICK b, f, c, e : /\ b = s.part["backend_files"] /\ f = s.part["frontend_files"]
                          /\ c = s.part["config_files"] /\ e = s.part["test_files"]
    OBVIOUS
  <1>2. b \in coder!Volumes /\ f \in coder!Volumes /\ c \in coder!Volumes /\ e \in coder!Volumes
    BY <1>1 DEF CoderState, coder!Parts
  <1>3. PICK x, y : /\ x = b.files + f.files + c.files + e.files
                    /\ y = b.lines + f.lines + c.lines + e.lines
    OBVIOUS
  <1>4. x \in CoderFiles /\ y \in CoderLines
    <2>1. b.files \in 0..20 /\ f.files \in 0..20 /\ c.files \in 0..20 /\ e.files \in 0..20
      BY <1>2, VolumeBounds
    <2>2. b.lines \in 0..500 /\ f.lines \in 0..500 /\ c.lines \in 0..500 /\ e.lines \in 0..500
      BY <1>2, VolumeBounds
    <2>3. x \in 0..80 BY <1>3, <2>1
    <2>4. PICK i \in 0..500, j \in 0..500, k \in 0..500, l \in 0..500 :
            i = b.lines /\ j = f.lines /\ k = c.lines /\ l = e.lines
      BY <2>2
    <2>5. y = i + j + k + l BY <1>3, <2>4
    <2>6. i + j + k + l \in 0..2000 OBVIOUS
    <2>7. y \in 0..2000 BY <2>5, <2>6
    <2> QED BY <2>3, <2>7 DEF CoderFiles, CoderLines
  <1>5. t = [s EXCEPT !.total_files = x, !.total_lines = y]
    BY <1>1, <1>3 DEF coder!output, coder!Total
  <1> QED BY <1>4, <1>5 DEF CoderState

\* Each stage keeps the type of the code, and a main file among files.
LEMMA CoderStages ==
    ASSUME NEW n \in CoderNodes, NEW s \in CoderState, MainIsAmongFiles(s), NEW r,
           NEW t \in coder!Returns(n, r, s)
    PROVE  t \in CoderState /\ MainIsAmongFiles(t)
  <1> USE DEF MainIsAmongFiles
  <1>1. CASE n = "_generate_backend"
    <2>1. PICK u \in coder!Generate("backend_files", s) :
            \E main \in {m \in BOOLEAN : m => u.part["backend_files"].files > 0} :
                t = [u EXCEPT !.has_main = main]
      BY <1>1 DEF coder!Returns, coder!_generate_backend
    <2>2. u \in CoderState BY GeneratedPart DEF coder!Parts
    <2>3. PICK main \in BOOLEAN :
            t = [u EXCEPT !.has_main = main] /\ (main => u.part["backend_files"].files > 0)
      BY <2>1
    <2>4. t \in CoderState /\ t.part = u.part /\ t.has_main = main
      BY <2>2, <2>3 DEF CoderState
    <2> QED BY <2>3, <2>4
  <1>2. CASE n = "_generate_frontend"
    <2>1. t \in coder!Generate("frontend_files", s)
      BY <1>2 DEF coder!Returns, coder!_generate_frontend
    <2> QED BY <2>1, GeneratedPart DEF coder!Parts
  <1>3. CASE n = "_generate_config"
    <2>1. t \in coder!Generate("config_files", s)
      BY <1>3 DEF coder!Returns, coder!_generate_config
    <2> QED BY <2>1, GeneratedPart DEF coder!Parts
  <1>4. CASE n = "_generate_tests"
    <2>1. PICK u : u = [s EXCEPT !.summarised = s.part["backend_files"]] OBVIOUS
    <2>2. t \in coder!Generate("test_files", u)
      BY <1>4, <2>1 DEF coder!Returns, coder!_generate_tests
    <2>3. u \in CoderState /\ u.part = s.part /\ u.has_main = s.has_main
      BY <2>1 DEF CoderState, coder!Parts
    <2> QED BY <2>2, <2>3, GeneratedPart DEF coder!Parts
  <1>5. CASE n = "output"
    <2>1. t \in coder!output(s) BY <1>5 DEF coder!Returns
    <2> QED BY <2>1, TotalledOutput
  <1> QED BY <1>1, <1>2, <1>3, <1>4, <1>5 DEF CoderNodes

\* The verdict has its type.
LEMMA CoderVerified ==
    ASSUME CoderInv, coder!verify PROVE st' \in CoderState /\ MainIsAmongFiles(st')
  <1>1. PICK c \in CoderConfidence : c = coder!Confidence(st)
    BY DEF coder!Confidence, CoderConfidence
  <1>2. PICK w \in CoderWarnings : w = coder!Warnings(st)
    BY DEF coder!Warnings, CoderWarnings
  <1>3. st' = [st EXCEPT !.confidence = c, !.warnings = w] BY <1>1, <1>2 DEF coder!verify
  <1>4. st \in CoderState BY DEF CoderInv
  <1>5. st' \in CoderState /\ st'.part = st.part /\ st'.has_main = st.has_main
    BY <1>3, <1>4 DEF CoderState
  <1> QED BY <1>5 DEF CoderInv, MainIsAmongFiles

\* Every step of the coder keeps its invariant.
LEMMA CoderStep == CoderInv /\ [coder!Next]_agentVars => CoderInv'
  <1> SUFFICES ASSUME CoderInv, [coder!Next]_agentVars PROVE CoderInv'
    OBVIOUS
  <1>1. ASSUME NEW n \in next, Returning(n), st' \in coder!Returns(n, read, st)
        PROVE  CoderInv'
    <2>1. RunTypes' BY <1>1, RunTypesKept DEF CoderInv
    <2>2. st' \in CoderState /\ MainIsAmongFiles(st') BY <1>1, CoderStages DEF CoderInv
    <2> QED BY <1>1, <2>1, <2>2 DEF Returning, CoderInv, MainIsAmongFiles
  <1>2. CASE Following(coder!Graph!Following)
    <2>1. PICK following : following = coder!Graph!Following OBVIOUS
    <2>2. RunTypes' BY <1>2, RunTypesKept DEF CoderInv
    <2>3. following \subseteq CoderNodes
      BY <2>1 DEF coder!Graph!Following, coder!Successors, CoderInv, CoderNodes
    <2> QED BY <1>2, <2>1, <2>2, <2>3 DEF Following, CoderInv, MainIsAmongFiles
  <1>3. CASE Stopping(coder!Graph!Following)
    <2>1. RunTypes' BY <1>3, RunTypesKept DEF CoderInv
    <2> QED BY <1>3, <2>1 DEF Stopping, CoderInv, MainIsAmongFiles
  <1>4. CASE Verifying /\ coder!verify
    <2>1. RunTypes' BY <1>4, RunTypesKept DEF CoderInv
    <2> QED BY <1>4, <2>1, CoderVerified DEF Verifying, CoderInv, MainIsAmongFiles
  <1>5. CASE UNCHANGED agentVars
    <2>1. RunTypes' BY <1>5, RunTypesKept DEF CoderInv, agentVars
    <2> QED BY <1>5, <2>1 DEF agentVars, CoderInv, MainIsAmongFiles
  <1> QED BY <1>1, <1>2, <1>3, <1>4, <1>5, CoderMoves

\* The coder's invariant is as strong as its type.
LEMMA CoderHolds == CoderInv => RunTypes /\ coder!TypeOK
  BY DEF CoderInv, CoderState, MainIsAmongFiles, coder!TypeOK, CoderFiles, CoderLines,
     CoderConfidence, CoderWarnings

\* What holds of a subset of D whenever it holds of all smaller ones, holds of D.
LEMMA OfAllSubsets ==
    ASSUME NEW D, IsFiniteSet(D), NEW Good,
           \A T \in SUBSET D : (\A U \in SUBSET T : U # T => U \in Good) => T \in Good
    PROVE  SUBSET D \subseteq Good
  <1> SUFFICES ASSUME (SUBSET D) \ Good # {} PROVE FALSE
    OBVIOUS
  <1>1. FiniteSubsetsOf(D) = SUBSET D BY FS_FiniteSubsetsOfFinite
  <1>2. IsWellFoundedOn(StrictSubsetOrdering(D), SUBSET D)
    BY <1>1, FS_StrictSubsetOrderingWellFounded
  <1>3. PICK Bad, R : Bad = (SUBSET D) \ Good /\ R = StrictSubsetOrdering(D) OBVIOUS
  <1>4. Bad \subseteq SUBSET D /\ Bad # {} BY <1>3
  <1>5. IsWellFoundedOn(R, SUBSET D) BY <1>2, <1>3
  <1>6. PICK T \in Bad : \A U \in Bad : ~(<<U, T>> \in R) BY <1>4, <1>5, WFMin
  <1>7. \A U \in SUBSET T : U # T => U \in Good
    BY <1>3, <1>6 DEF StrictSubsetOrdering
  <1> QED BY <1>3, <1>6, <1>7

-----------------------------------------------------------------------------
(* Sums, as MapThenSumSet computes them *)

\* The element that a sum over S takes first.
PickOf(S) == CHOOSE x \in S : TRUE

Adding(w, f, s) == IF s = {} THEN 0 ELSE w[PickOf(s)] + f[s \ {PickOf(s)}]

SumOver(w, S) ==
    LET iter[s \in SUBSET S] == Adding(w, iter, s)
    IN  iter[S]

\* The sums of the subsets of S.
Sums(w, f, S) == f = [s \in SUBSET S |-> Adding(w, f, s)]

\* What is picked of a set is in it.
LEMMA PickIsIn == ASSUME NEW S, S # {} PROVE PickOf(S) \in S
  BY DEF PickOf

\* Without its pick a set is smaller by one.
LEMMA PickTaken ==
    ASSUME NEW S, IsFiniteSet(S), S # {}
    PROVE  /\ IsFiniteSet(S \ {PickOf(S)})
           /\ Cardinality(S \ {PickOf(S)}) + 1 = Cardinality(S)
           /\ Cardinality(S) \in Nat /\ Cardinality(S \ {PickOf(S)}) \in Nat
  <1>1. PICK p, T : p = PickOf(S) /\ T = S \ {p} OBVIOUS
  <1>2. p \in S BY <1>1, PickIsIn
  <1>3. IsFiniteSet(T) /\ Cardinality(T) = Cardinality(S) - 1
    BY <1>1, <1>2, FS_RemoveElement
  <1>4. Cardinality(S) \in Nat /\ Cardinality(T) \in Nat BY <1>3, FS_CardinalityType
  <1> QED BY <1>1, <1>3, <1>4

\* There are sums for all subsets of a finite set.
LEMMA SumsExist ==
    ASSUME NEW w, NEW D, IsFiniteSet(D)
    PROVE  \E f : Sums(w, f, D)
  <1> DEFINE SumsTo(f, n) ==
               \A s \in SUBSET D : Cardinality(s) <= n => f[s] = Adding(w, f, s)
             Defined == {n \in Nat : \E f : SumsTo(f, n)}
  <1>1. \A s \in SUBSET D : IsFiniteSet(s) /\ Cardinality(s) \in Nat /\ Cardinality(s) <= Cardinality(D)
    BY FS_Subset, FS_CardinalityType
  <1>2. Cardinality(D) \in Nat BY FS_CardinalityType
  <1>3. \A f, g, s : s = {} \/ f[s \ {PickOf(s)}] = g[s \ {PickOf(s)}]
          => Adding(w, f, s) = Adding(w, g, s)
    BY DEF Adding
  <1>4. 0 \in Defined
    <2>1. PICK f : f = [s \in SUBSET D |-> 0] OBVIOUS
    <2>2. \A s \in SUBSET D : Cardinality(s) <= 0 => s = {}
      BY <1>1, FS_EmptySet
    <2>3. SumsTo(f, 0) BY <2>1, <2>2 DEF Adding
    <2> QED BY <2>3
  <1>5. ASSUME NEW n \in Nat, n \in Defined PROVE n + 1 \in Defined
    <2>1. PICK f : SumsTo(f, n) BY <1>5
    <2>2. PICK g : g = [s \in SUBSET D |-> IF Cardinality(s) <= n THEN f[s] ELSE Adding(w, f, s)]
      OBVIOUS
    <2>3. ASSUME NEW s \in SUBSET D, Cardinality(s) <= n + 1 PROVE g[s] = Adding(w, g, s)
      <3>1. g[s] = Adding(w, f, s) BY <2>1, <2>2
      <3>2. CASE s = {} BY <1>3, <3>1, <3>2
      <3>3. CASE s # {}
        <4>1. PICK t : t = s \ {PickOf(s)} OBVIOUS
        <4>2. t \in SUBSET D /\ Cardinality(t) <= n
          BY <1>1, <2>3, <3>3, <4>1, PickTaken
        <4>3. g[t] = f[t] BY <2>2, <4>2
        <4> QED BY <1>3, <3>1, <4>1, <4>3
      <3> QED BY <3>2, <3>3
    <2>4. SumsTo(g, n + 1) BY <2>3
    <2> QED BY <2>4
  <1> HIDE DEF SumsTo
  <1>6. 0..Cardinality(D) \subseteq Defined BY <1>2, <1>4, <1>5, UpTo
  <1>7. PICK f : SumsTo(f, Cardinality(D)) BY <1>2, <1>6
  <1>8. PICK g : g = [s \in SUBSET D |-> f[s]] OBVIOUS
  <1>9. \A s \in SUBSET D : f[s] = Adding(w, f, s) BY <1>1, <1>7 DEF SumsTo
  <1>10. \A s \in SUBSET D : s # {} => s \ {PickOf(s)} \in SUBSET D OBVIOUS
  <1>11. ASSUME NEW s \in SUBSET D PROVE g[s] = Adding(w, g, s)
    <2>1. s = {} \/ f[s \ {PickOf(s)}] = g[s \ {PickOf(s)}] BY <1>8, <1>10
    <2>2. Adding(w, f, s) = Adding(w, g, s) BY <1>3, <2>1
    <2> QED BY <1>8, <1>9, <2>2
  <1>12. g = [s \in SUBSET D |-> Adding(w, g, s)] BY <1>8, <1>11
  <1> QED BY <1>12 DEF Sums

\* What sums there are does not depend on the set they are subsets of.
LEMMA SumsAgree ==
    ASSUME NEW w, NEW f, NEW S, Sums(w, f, S), NEW g, NEW T, Sums(w, g, T),
           T \in SUBSET S, IsFiniteSet(T)
    PROVE  f[T] = g[T]
  <1> DEFINE Good == {U \in SUBSET T : f[U] = g[U]}
  <1>1. ASSUME NEW U \in SUBSET T, \A V \in SUBSET U : V # U => V \in Good
        PROVE  U \in Good
    <2>1. f[U] = Adding(w, f, U) /\ g[U] = Adding(w, g, U) BY DEF Sums
    <2>2. U = {} \/ f[U \ {PickOf(U)}] = g[U \ {PickOf(U)}]
      BY <1>1, PickIsIn
    <2> QED BY <2>1, <2>2 DEF Adding
  <1> HIDE DEF Good
  <1>2. SUBSET T \subseteq Good BY <1>1, OfAllSubsets
  <1> QED BY <1>2 DEF Good

\* The sum over S is one of them.
LEMMA SumOverIs ==
    ASSUME NEW w, NEW S, IsFiniteSet(S)
    PROVE  \E f : Sums(w, f, S) /\ SumOver(w, S) = f[S]
  <1> DEFINE iter[s \in SUBSET S] == Adding(w, iter, s)
  <1>1. SumOver(w, S) = iter[S] BY DEF SumOver
  <1>2. iter = CHOOSE f : Sums(w, f, S) BY DEF Sums
  <1>3. Sums(w, iter, S) BY <1>2, SumsExist
  <1> QED BY <1>1, <1>3

\* Nothing adds up to nothing.
LEMMA SumOfNone == \A w : SumOver(w, {}) = 0
  <1> TAKE w
  <1>1. PICK f : Sums(w, f, {}) /\ SumOver(w, {}) = f[{}] BY SumOverIs, FS_EmptySet
  <1> QED BY <1>1 DEF Sums, Adding

\* A sum is that of the pick and that of the rest.
LEMMA SumWithPick ==
    ASSUME NEW w, NEW S, IsFiniteSet(S), S # {}
    PROVE  SumOver(w, S) = w[PickOf(S)] + SumOver(w, S \ {PickOf(S)})
  <1>1. PICK f : Sums(w, f, S) /\ SumOver(w, S) = f[S] BY SumOverIs
  <1>2. PICK T : T = S \ {PickOf(S)} OBVIOUS
  <1>3. IsFiniteSet(T) /\ T \in SUBSET S BY <1>2, PickTaken
  <1>4. PICK g : Sums(w, g, T) /\ SumOver(w, T) = g[T] BY <1>3, SumOverIs
  <1>5. f[T] = g[T] BY <1>1, <1>3, <1>4, SumsAgree
  <1>6. f[S] = Adding(w, f, S) BY <1>1 DEF Sums
  <1> QED BY <1>1, <1>2, <1>4, <1>5, <1>6 DEF Adding

\* Sums of natural numbers are natural numbers.
LEMMA SumIsNat ==
    ASSUME NEW S, IsFiniteSet(S), NEW w, \A x \in S : w[x] \in Nat
    PROVE  SumOver(w, S) \in Nat
  <1> DEFINE Good == {T \in SUBSET S : SumOver(w, T) \in Nat}
  <1>1. ASSUME NEW T \in SUBSET S, \A U \in SUBSET T : U # T => U \in Good
        PROVE  T \in Good
    <2>1. CASE T = {} BY <2>1, SumOfNone
    <2>2. CASE T # {}
      <3>1. IsFiniteSet(T) BY FS_Subset
      <3>2. SumOver(w, T) = w[PickOf(T)] + SumOver(w, T \ {PickOf(T)})
        BY <2>2, <3>1, SumWithPick
      <3>3. PickOf(T) \in T /\ T \ {PickOf(T)} \in Good
        BY <1>1, <2>2, PickIsIn
      <3> QED BY <3>2, <3>3
    <2> QED BY <2>1, <2>2
  <1> HIDE DEF Good
  <1>2. SUBSET S \subseteq Good BY <1>1, OfAllSubsets
  <1> QED BY <1>2 DEF Good

\* The order does not matter: any element may be taken out first.
LEMMA SumWith ==
    ASSUME NEW S, IsFiniteSet(S), NEW w, \A x \in S : w[x] \in Nat, NEW x \in S
    PROVE  SumOver(w, S) = w[x] + SumOver(w, S \ {x})
  <1> DEFINE Good == {T \in SUBSET S : \A y \in T : SumOver(w, T) = w[y] + SumOver(w, T \ {y})}
  <1>1. \A T \in SUBSET S : IsFiniteSet(T) /\ SumOver(w, T) \in Nat
    BY FS_Subset, SumIsNat
  <1>2. ASSUME NEW T \in SUBSET S, \A U \in SUBSET T : U # T => U \in Good
        PROVE  T \in Good
    <2> SUFFICES ASSUME NEW y \in T PROVE SumOver(w, T) = w[y] + SumOver(w, T \ {y})
      OBVIOUS
    <2>1. PICK p : p = PickOf(T) OBVIOUS
    <2>2. p \in T BY <2>1, PickIsIn
    <2>3. SumOver(w, T) = w[p] + SumOver(w, T \ {p}) BY <1>1, <2>1, SumWithPick
    <2>4. CASE p = y BY <2>3, <2>4
    <2>5. CASE p # y
      <3>1. SumOver(w, T \ {p}) = w[y] + SumOver(w, (T \ {p}) \ {y})
        BY <1>2, <2>2, <2>5
      <3>2. SumOver(w, T \ {y}) = w[p] + SumOver(w, (T \ {y}) \ {p})
        BY <1>2, <2>2, <2>5
      <3>3. PICK R : R = (T \ {p}) \ {y} OBVIOUS
      <3>4. R = (T \ {y}) \ {p} /\ SumOver(w, R) \in Nat BY <1>1, <3>3
      <3>5. w[p] \in Nat /\ w[y] \in Nat BY <2>2
      <3> QED BY <2>3, <3>1, <3>2, <3>3, <3>4, <3>5
    <2> QED BY <2>4, <2>5
  <1> HIDE DEF Good
  <1>3. SUBSET S \subseteq Good BY <1>2, OfAllSubsets
  <1> QED BY <1>3 DEF Good

\* A sum is carried from S to T by any map that hits every element of T once.
LEMMA SumCarried ==
    ASSUME NEW S, IsFiniteSet(S), NEW T, IsFiniteSet(T), NEW f \in [S -> T],
           \A x, y \in S : f[x] = f[y] => x = y, \A z \in T : \E x \in S : f[x] = z,
           NEW w, NEW v, \A x \in S : w[x] \in Nat /\ v[f[x]] = w[x]
    PROVE  SumOver(w, S) = SumOver(v, T)
  <1> DEFINE Image(U) == {f[x] : x \in U}
             Good == {U \in SUBSET S : SumOver(w, U) = SumOver(v, Image(U))}
  <1>1. ASSUME NEW U \in SUBSET S, \A V \in SUBSET U : V # U => V \in Good
        PROVE  U \in Good
    <2>1. CASE U = {}
      <3>1. Image(U) = {} BY <2>1
      <3> QED BY <2>1, <3>1, SumOfNone
    <2>2. CASE U # {}
      <3>1. PICK x \in U : TRUE BY <2>2
      <3>2. IsFiniteSet(U) /\ Image(U) \in SUBSET T BY FS_Subset
      <3>3. IsFiniteSet(Image(U)) BY <3>2, FS_Subset
      <3>4. SumOver(w, U) = w[x] + SumOver(w, U \ {x}) BY <3>1, <3>2, SumWith
      <3>5. \A z \in Image(U) : v[z] \in Nat OBVIOUS
      <3>6. f[x] \in Image(U) BY <3>1
      <3>7. PICK R : R = Image(U) OBVIOUS
      <3>8. SumOver(v, R) = v[f[x]] + SumOver(v, R \ {f[x]})
        BY <3>3, <3>5, <3>6, <3>7, SumWith
      <3>9. R \ {f[x]} = Image(U \ {x}) BY <3>1, <3>7
      <3>10. U \ {x} \in Good BY <1>1, <3>1
      <3> QED BY <3>1, <3>4, <3>7, <3>8, <3>9, <3>10
    <2> QED BY <2>1, <2>2
  <1>2. Image(S) = T OBVIOUS
  <1> HIDE DEF Good
  <1>3. SUBSET S \subseteq Good BY <1>1, OfAllSubsets
  <1> QED BY <1>2, <1>3 DEF Good

\* Equal weights have equal sums.
LEMMA SumOfSame ==
    ASSUME NEW S, IsFiniteSet(S), NEW w, NEW v, \A x \in S : w[x] \in Nat /\ v[x] = w[x]
    PROVE  SumOver(w, S) = SumOver(v, S)
  <1>1. PICK f : f = [x \in S |-> x] OBVIOUS
  <1> QED BY <1>1, SumCarried

\* Zeros add up to zero.
LEMMA SumOfZeros ==
    ASSUME NEW S, IsFiniteSet(S), NEW w, \A x \in S : w[x] = 0
    PROVE  SumOver(w, S) = 0
  <1> DEFINE Good == {T \in SUBSET S : SumOver(w, T) = 0}
  <1>1. ASSUME NEW T \in SUBSET S, \A U \in SUBSET T : U # T => U \in Good
        PROVE  T \in Good
    <2>1. CASE T = {} BY <2>1, SumOfNone
    <2>2. CASE T # {}
      <3>1. IsFiniteSet(T) BY FS_Subset
      <3>2. SumOver(w, T) = w[PickOf(T)] + SumOver(w, T \ {PickOf(T)})
        BY <2>2, <3>1, SumWithPick
      <3>3. PickOf(T) \in T /\ T \ {PickOf(T)} \in Good
        BY <1>1, <2>2, PickIsIn
      <3> QED BY <3>2, <3>3
    <2> QED BY <2>1, <2>2
  <1> HIDE DEF Good
  <1>2. SUBSET S \subseteq Good BY <1>1, OfAllSubsets
  <1> QED BY <1>2 DEF Good

\* Sums by key, over all the keys there are, make up the whole sum.
LEMMA SumByKey ==
    ASSUME NEW D, IsFiniteSet(D), NEW K, IsFiniteSet(K), NEW key \in [D -> K],
           NEW w, \A i \in D : w[i] \in Nat
    PROVE  SumOver(w, D) =
               SumOver([k \in K |-> SumOver(w, {i \in D : key[i] = k})], K)
  <1> DEFINE By(T) == [k \in K |-> SumOver(w, {i \in T : key[i] = k})]
             Good == {T \in SUBSET D : SumOver(w, T) = SumOver(By(T), K)}
  <1>1. ASSUME NEW T \in SUBSET D PROVE \A k \in K : By(T)[k] \in Nat
    <2> TAKE k \in K
    <2>1. PICK R : R = {i \in T : key[i] = k} OBVIOUS
    <2>2. R \in SUBSET D BY <2>1
    <2>3. IsFiniteSet(R) BY <2>2, FS_Subset
    <2>4. SumOver(w, R) \in Nat BY <2>2, <2>3, SumIsNat
    <2> QED BY <2>1, <2>4
  <1>2. ASSUME NEW T \in SUBSET D, \A U \in SUBSET T : U # T => U \in Good
        PROVE  T \in Good
    <2>1. CASE T = {}
      <3>1. \A k \in K : {i \in T : key[i] = k} = {} BY <2>1
      <3>2. \A k \in K : By(T)[k] = 0 BY <3>1, SumOfNone
      <3>3. PICK b : b = By(T) OBVIOUS
      <3>4. SumOver(b, K) = 0 BY <3>2, <3>3, SumOfZeros
      <3> QED BY <2>1, <3>3, <3>4, SumOfNone
    <2>2. CASE T # {}
      <3>1. PICK x \in T : TRUE BY <2>2
      <3>2. PICK U, k : U = T \ {x} /\ k = key[x] OBVIOUS
      <3>3. PICK b, c : b = By(T) /\ c = By(U) OBVIOUS
      <3>4. IsFiniteSet(T) /\ U \in SUBSET D /\ k \in K /\ U \in Good
        BY <1>2, <3>1, <3>2, FS_Subset
      <3>5. SumOver(w, T) = w[x] + SumOver(w, U) BY <3>1, <3>2, <3>4, SumWith
      <3>6. SumOver(w, U) = SumOver(c, K) BY <3>3, <3>4
      <3>7. (\A l \in K : b[l] \in Nat) /\ (\A l \in K : c[l] \in Nat) BY <1>1, <3>3, <3>4
      <3>8. SumOver(b, K) = b[k] + SumOver(b, K \ {k}) BY <3>4, <3>7, SumWith
      <3>9. SumOver(c, K) = c[k] + SumOver(c, K \ {k}) BY <3>4, <3>7, SumWith
      <3>10. b[k] = w[x] + c[k]
        <4>1. PICK R : R = {i \in T : key[i] = k} OBVIOUS
        <4>2. R \in SUBSET D /\ x \in R /\ R \ {x} = {i \in U : key[i] = k}
          BY <3>1, <3>2, <4>1
        <4>3. IsFiniteSet(R) BY <4>2, FS_Subset
        <4>4. SumOver(w, R) = w[x] + SumOver(w, R \ {x}) BY <4>2, <4>3, SumWith
        <4>5. b[k] = SumOver(w, R) BY <3>3, <3>4, <4>1
        <4>6. c[k] = SumOver(w, R \ {x}) BY <3>3, <3>4, <4>2
        <4> QED BY <4>4, <4>5, <4>6
      <3>11. \A l \in K \ {k} : b[l] = c[l]
        <4> TAKE l \in K \ {k}
        <4>1. {i \in T : key[i] = l} = {i \in U : key[i] = l} BY <3>2
        <4> QED BY <3>3, <4>1
      <3>12. IsFiniteSet(K \ {k}) BY FS_RemoveElement
      <3>13. SumOver(b, K \ {k}) = SumOver(c, K \ {k}) BY <3>7, <3>11, <3>12, SumOfSame
      <3>14. SumOver(c, K \ {k}) \in Nat BY <3>7, <3>12, SumIsNat
      <3>15. w[x] \in Nat /\ c[k] \in Nat BY <3>1, <3>4, <3>7
      <3>16. SumOver(b, K) = SumOver(w, T)
        BY <3>5, <3>6, <3>8, <3>9, <3>10, <3>13, <3>14, <3>15
      <3> QED BY <3>3, <3>16
    <2> QED BY <2>1, <2>2
  <1> HIDE DEF Good
  <1>3. SUBSET D \subseteq Good BY <1>2, OfAllSubsets
  <1> QED BY <1>3 DEF Good

-----------------------------------------------------------------------------
(* LLMOps *)

\* The tokens of some traces are a sum over them.
LEMMA TokensAreASum ==
    ASSUME NEW traces, NEW D, IsFiniteSet(D)
    PROVE  llmops!TokensOf(D, traces) = SumOver([i \in D |-> traces[i].tokens_used], D)
  <1> DEFINE iter[s \in SUBSET D] ==
               IF s = {} THEN 0 ELSE traces[PickOf(s)].tokens_used + iter[s \ {PickOf(s)}]
  <1>1. llmops!TokensOf(D, traces) = iter[D]
    BY DEF llmops!TokensOf, llmops!MapThenSumSet, llmops!MapThenFoldSet, PickOf
  <1>2. PICK w : w = [i \in D |-> traces[i].tokens_used] OBVIOUS
  <1>3. \A f : Sums(w, f, D) <=>
               f = [s \in SUBSET D |-> IF s = {} THEN 0
                                       ELSE traces[PickOf(s)].tokens_used + f[s \ {PickOf(s)}]]
    <2> TAKE f
    <2>1. \A s \in SUBSET D : s # {} => w[PickOf(s)] = traces[PickOf(s)].tokens_used
      BY <1>2, PickIsIn
    <2> QED BY <2>1 DEF Sums, Adding
  <1>4. iter = CHOOSE f : Sums(w, f, D) BY <1>3
  <1>5. Sums(w, iter, D) BY <1>4, SumsExist
  <1>6. PICK f : Sums(w, f, D) /\ SumOver(w, D) = f[D] BY SumOverIs
  <1>7. iter[D] = f[D] BY <1>5, <1>6, SumsAgree
  <1> QED BY <1>1, <1>2, <1>6, <1>7

\* What the values of record w add up to.
Summed(w) == llmops!MapThenSumSet(LAMBDA a : w[a], DOMAIN w)

\* What a record of sums adds up to is a sum over its keys.
LEMMA SummedOver ==
    ASSUME NEW D, IsFiniteSet(D), NEW w, D = DOMAIN w
    PROVE  Summed(w) = SumOver(w, D)
  <1> DEFINE iter[s \in SUBSET D] ==
               IF s = {} THEN 0 ELSE w[PickOf(s)] + iter[s \ {PickOf(s)}]
  <1>1. Summed(w) = iter[D]
    BY DEF Summed, llmops!MapThenSumSet, llmops!MapThenFoldSet, PickOf
  <1>2. \A f : Sums(w, f, D) <=>
               f = [s \in SUBSET D |-> IF s = {} THEN 0
                                       ELSE w[PickOf(s)] + f[s \ {PickOf(s)}]]
    BY DEF Sums, Adding
  <1>3. iter = CHOOSE f : Sums(w, f, D) BY <1>2
  <1>4. Sums(w, iter, D) BY <1>3, SumsExist
  <1>5. PICK f : Sums(w, f, D) /\ SumOver(w, D) = f[D] BY SumOverIs
  <1>6. iter[D] = f[D] BY <1>4, <1>5, SumsAgree
  <1> QED BY <1>1, <1>5, <1>6

\* The stages of LLMOps.
LLMOpsNodes ==
    {"_analyze_traces", "_optimize_prompts", "_detect_drift", "_compute_finops",
     "_build_summary"}

Indices(traces) == DOMAIN traces

TokensByAgent(traces) ==
    [a \in llmops!Agents(traces) |-> llmops!TokensOf(llmops!OfAgent(a, traces), traces)]

OfOrganization(o, traces) == {i \in Indices(traces) : traces[i].organization_id = o}

TokensByOrg(traces) ==
    [o \in llmops!Organizations(traces) |-> llmops!TokensOf(OfOrganization(o, traces), traces)]

LLMOpsTokens(traces) == {0, llmops!TokensOf(Indices(traces), traces)}
LLMOpsByAgent(traces) == {<<>>, TokensByAgent(traces)}
LLMOpsByOrg(traces) == {<<>>, TokensByOrg(traces)}
LLMOpsNames(traces) == SUBSET llmops!Agents(traces)
LLMOpsAlerts(traces) == SUBSET llmops!Alerts(traces)

LLMOpsState(traces) ==
    [traces : Inputs, top_issues : LLMOpsNames(traces), optimizations : LLMOpsNames(traces),
     drift_alerts : LLMOpsAlerts(traces), total_tokens : LLMOpsTokens(traces),
     by_agent : LLMOpsByAgent(traces), by_org : LLMOpsByOrg(traces),
     routing_updates : LLMOpsNames(traces), critical : LLMOpsAlerts(traces)]

LLMOpsLayers == {{}} \cup {{n} : n \in LLMOpsNodes}

\* Drift has been detected.
Detected ==
    \/ "_detect_drift" \in done
    \/ next \cap {"_compute_finops", "_build_summary"} # {}
    \/ status \in {"ended", "returned"}

\* Tokens have been totalled.
Totalled ==
    \/ "_compute_finops" \in done
    \/ "_build_summary" \in next
    \/ status \in {"ended", "returned"}

\* The sums of report s are those of its traces.
AddsUp(s) ==
    /\ s.total_tokens = llmops!TokensOf(Indices(s.traces), s.traces)
    /\ s.by_agent = TokensByAgent(s.traces)
    /\ s.by_org = TokensByOrg(s.traces)

\* The report has drift and sums from when they are computed on.
LLMOpsInv ==
    /\ RunTypes
    /\ next \in LLMOpsLayers
    /\ st \in LLMOpsState(st.traces)
    /\ st.critical \subseteq st.drift_alerts
    /\ Detected => st.drift_alerts = llmops!DriftIn(st.traces)
    /\ status = "running" /\ ~Detected => st.critical = {}
    /\ Totalled => AddsUp(st)

\* Every step of the LLMOps agent is one that any run may make.
LEMMA LLMOpsMoves ==
    ASSUME llmops!Next
    PROVE  \/ \E n \in next : Returning(n) /\ st' \in llmops!Returns(n, read, st)
           \/ Stopping(llmops!Graph!Following)
           \/ Following(llmops!Graph!Following)
           \/ Verifying /\ llmops!verify
  BY LimitsAssumption
  DEF llmops!Next, llmops!Graph!Step, llmops!Graph!superstep,
     llmops!Graph!limit_reached, llmops!Graph!end_reached,
     llmops!Graph!node_returns, llmops!Graph!node_raises, llmops!Graph!abandoned,
     llmops!Graph!Stop, llmops!verify, Returning, Stopping, Following, Verifying

\* The LLMOps agent's initial states satisfy its invariant.
LEMMA LLMOpsInit == llmops!Init => LLMOpsInv
  <1> SUFFICES ASSUME NEW traces \in Inputs, llmops!Graph!Start(llmops!Initial(traces))
               PROVE  LLMOpsInv
    BY DEF llmops!Init
  <1>1. /\ status = "running" /\ steps = 1 /\ next = {"_analyze_traces"} /\ done = {}
        /\ st = llmops!Initial(traces)
    BY DEF llmops!Graph!Start
  <1>2. RunTypes BY <1>1, LimitsAssumption DEF RunTypes
  <1>3. st \in LLMOpsState(traces) /\ st.traces = traces /\ st.critical = {}
    BY <1>1
    DEF llmops!Initial, LLMOpsState, LLMOpsTokens, LLMOpsByAgent, LLMOpsByOrg, LLMOpsNames,
        LLMOpsAlerts
  <1>4. ~Detected /\ ~Totalled BY <1>1 DEF Detected, Totalled
  <1> QED BY <1>1, <1>2, <1>3, <1>4 DEF LLMOpsInv, LLMOpsLayers, LLMOpsNodes

\* Drift is found of the agents that have traces only.
LEMMA DriftIsOfTheAgents ==
    ASSUME NEW traces PROVE llmops!DriftIn(traces) \in LLMOpsAlerts(traces)
  <1>1. ASSUME NEW a \in llmops!Agents(traces), NEW m \in llmops!Metrics
        PROVE  llmops!AlertsOf(a, m, traces) \subseteq llmops!Alerts(traces)
    <2>1. \A b, c : llmops!_make_drift_alert(a, m, b, c) \subseteq llmops!Alerts(traces)
      BY DEF llmops!_make_drift_alert, llmops!Alerts
    <2> QED BY <2>1 DEF llmops!AlertsOf
  <1>2. UNION {llmops!AlertsOf(a, m, traces) : a \in llmops!Agents(traces), m \in llmops!Metrics}
          \subseteq llmops!Alerts(traces)
    BY <1>1
  <1> QED BY <1>2 DEF llmops!DriftIn, LLMOpsAlerts

\* What each stage writes into the report.
LEMMA LLMOpsStages ==
    ASSUME NEW n \in LLMOpsNodes, NEW s, s \in LLMOpsState(s.traces), NEW r,
           NEW t \in llmops!Returns(n, r, s)
    PROVE  /\ t \in LLMOpsState(s.traces) /\ t.traces = s.traces
           /\ n # "_build_summary" => t.critical = s.critical
           /\ n = "_build_summary" => t.critical \subseteq s.drift_alerts
           /\ t.drift_alerts = IF n = "_detect_drift" THEN llmops!DriftIn(s.traces)
                               ELSE s.drift_alerts
           /\ n = "_compute_finops" => AddsUp(t)
           /\ n # "_compute_finops" => /\ t.total_tokens = s.total_tokens
                                       /\ t.by_agent = s.by_agent /\ t.by_org = s.by_org
  <1>1. PICK traces : traces = s.traces OBVIOUS
  <1>2. s \in LLMOpsState(traces) BY <1>1
  <1>3. CASE n = "_analyze_traces"
    <2>1. PICK found \in LLMOpsNames(traces) : t = [s EXCEPT !.top_issues = found]
      BY <1>1, <1>3 DEF llmops!Returns, llmops!_analyze_traces, LLMOpsNames
    <2> QED BY <1>1, <1>2, <1>3, <2>1 DEF LLMOpsState
  <1>4. CASE n = "_optimize_prompts"
    <2>1. PICK for \in LLMOpsNames(traces) : t = [s EXCEPT !.optimizations = for]
      BY <1>1, <1>4 DEF llmops!Returns, llmops!_optimize_prompts, LLMOpsNames
    <2> QED BY <1>1, <1>2, <1>4, <2>1 DEF LLMOpsState
  <1>5. CASE n = "_detect_drift"
    <2>1. PICK drift : drift = llmops!DriftIn(traces) OBVIOUS
    <2>2. drift \in LLMOpsAlerts(traces) BY <2>1, DriftIsOfTheAgents
    <2>3. t = [s EXCEPT !.drift_alerts = drift]
      BY <1>1, <1>5, <2>1 DEF llmops!Returns, llmops!_detect_drift
    <2> QED BY <1>1, <1>2, <1>5, <2>1, <2>2, <2>3 DEF LLMOpsState
  <1>6. CASE n = "_compute_finops"
    <2>1. PICK total, agents, orgs :
            /\ total = llmops!TokensOf(Indices(traces), traces)
            /\ agents = TokensByAgent(traces) /\ orgs = TokensByOrg(traces)
      OBVIOUS
    <2>2. /\ total \in LLMOpsTokens(traces) /\ agents \in LLMOpsByAgent(traces)
          /\ orgs \in LLMOpsByOrg(traces)
      BY <2>1 DEF LLMOpsTokens, LLMOpsByAgent, LLMOpsByOrg
    <2>3. t = [s EXCEPT !.total_tokens = total, !.by_agent = agents, !.by_org = orgs]
      BY <1>1, <1>6, <2>1
      DEF llmops!Returns, llmops!_compute_finops, TokensByAgent, TokensByOrg, Indices,
          OfOrganization
    <2>4. t \in LLMOpsState(traces) /\ t.traces = traces /\ t.critical = s.critical
          /\ t.drift_alerts = s.drift_alerts
          /\ t.total_tokens = total /\ t.by_agent = agents /\ t.by_org = orgs
      BY <1>1, <1>2, <2>2, <2>3 DEF LLMOpsState
    <2> QED BY <1>1, <1>6, <2>1, <2>4 DEF AddsUp
  <1>7. CASE n = "_build_summary"
    <2>1. PICK u \in llmops!_build_routing_updates(s) :
            t = [s EXCEPT !.critical = {a \in s.drift_alerts : a.severity = "critical"},
                          !.routing_updates = u]
      BY <1>7 DEF llmops!Returns, llmops!_build_summary
    <2>2. u \subseteq s.top_issues BY DEF llmops!_build_routing_updates
    <2>3. PICK c : c = {a \in s.drift_alerts : a.severity = "critical"} OBVIOUS
    <2>4. s.top_issues \in LLMOpsNames(traces) /\ s.drift_alerts \in LLMOpsAlerts(traces)
      BY <1>2 DEF LLMOpsState
    <2>5. u \in LLMOpsNames(traces) /\ c \in LLMOpsAlerts(traces)
      BY <2>2, <2>3, <2>4 DEF LLMOpsNames, LLMOpsAlerts
    <2>6. t = [s EXCEPT !.critical = c, !.routing_updates = u] BY <2>1, <2>3
    <2>7. /\ t \in LLMOpsState(traces) /\ t.traces = traces /\ t.critical = c
          /\ t.drift_alerts = s.drift_alerts /\ t.total_tokens = s.total_tokens
          /\ t.by_agent = s.by_agent /\ t.by_org = s.by_org
      BY <1>1, <1>2, <2>5, <2>6 DEF LLMOpsState
    <2> QED BY <1>1, <1>7, <2>3, <2>7
  <1> QED BY <1>3, <1>4, <1>5, <1>6, <1>7 DEF LLMOpsNodes

\* A node of the LLMOps agent that returns keeps its invariant.
LEMMA LLMOpsReturnStep ==
    ASSUME LLMOpsInv, NEW n \in next, Returning(n), st' \in llmops!Returns(n, read, st)
    PROVE  LLMOpsInv'
  <1>1. RunTypes' BY RunTypesKept DEF LLMOpsInv
  <1>2. /\ n \notin done /\ done' = done \cup {n} /\ status' = "running" /\ status = "running"
        /\ next' = next /\ done \subseteq next
    BY DEF Returning, LLMOpsInv, RunTypes
  <1>3. n \in LLMOpsNodes /\ next = {n} /\ done = {} /\ done' = {n}
    BY <1>2 DEF LLMOpsInv, LLMOpsLayers
  <1>4. PICK t \in llmops!Returns(n, read, st) : st' = t OBVIOUS
  <1>5. st \in LLMOpsState(st.traces) BY DEF LLMOpsInv
  <1>6. /\ t \in LLMOpsState(st.traces) /\ t.traces = st.traces
        /\ n # "_build_summary" => t.critical = st.critical
        /\ n = "_build_summary" => t.critical \subseteq st.drift_alerts
        /\ t.drift_alerts = IF n = "_detect_drift" THEN llmops!DriftIn(st.traces)
                            ELSE st.drift_alerts
        /\ n = "_compute_finops" => AddsUp(t)
        /\ n # "_compute_finops" => /\ t.total_tokens = st.total_tokens
                                    /\ t.by_agent = st.by_agent /\ t.by_org = st.by_org
    BY <1>3, <1>5, LLMOpsStages
  <1>7. /\ Detected <=> n \in {"_compute_finops", "_build_summary"}
        /\ Totalled <=> n = "_build_summary"
        /\ Detected' <=> n \in {"_detect_drift", "_compute_finops", "_build_summary"}
        /\ Totalled' <=> n \in {"_compute_finops", "_build_summary"}
    BY <1>2, <1>3 DEF Detected, Totalled
  <1>8. /\ n \in {"_compute_finops", "_build_summary"} =>
             st.drift_alerts = llmops!DriftIn(st.traces)
        /\ n \notin {"_compute_finops", "_build_summary"} => st.critical = {}
        /\ st.critical \subseteq st.drift_alerts
        /\ n = "_build_summary" => AddsUp(st)
    BY <1>2, <1>7 DEF LLMOpsInv
  <1>9. t.critical \subseteq t.drift_alerts BY <1>6, <1>8
  <1>10. n \in {"_detect_drift", "_compute_finops", "_build_summary"} =>
           t.drift_alerts = llmops!DriftIn(t.traces)
    BY <1>6, <1>8
  <1>11. n \notin {"_detect_drift", "_compute_finops", "_build_summary"} => t.critical = {}
    BY <1>6, <1>8
  <1>12. n \in {"_compute_finops", "_build_summary"} => AddsUp(t)
    BY <1>6, <1>8 DEF AddsUp
  <1>13. next' \in LLMOpsLayers BY <1>2 DEF LLMOpsInv
  <1>14. (st \in LLMOpsState(st.traces))' BY <1>4, <1>6
  <1>15. (st.critical \subseteq st.drift_alerts)' BY <1>4, <1>9
  <1>16. /\ Detected' => (st.drift_alerts = llmops!DriftIn(st.traces))'
         /\ ~Detected' => (st.critical = {})'
    BY <1>4, <1>7, <1>10, <1>11
  <1>17. Totalled' => AddsUp(st)' BY <1>4, <1>7, <1>12 DEF AddsUp
  <1> QED BY <1>1, <1>13, <1>14, <1>15, <1>16, <1>17 DEF LLMOpsInv

\* The stages follow each other, one by one.
LEMMA LLMOpsFollowing ==
    ASSUME next \in LLMOpsLayers
    PROVE  /\ llmops!Graph!Following \in LLMOpsLayers
           /\ llmops!Graph!Following = {} /\ next # {} <=> next = {"_build_summary"}
           /\ "_compute_finops" \in llmops!Graph!Following <=> next = {"_detect_drift"}
           /\ "_build_summary" \in llmops!Graph!Following <=> next = {"_compute_finops"}
  <1>1. CASE next = {} BY <1>1 DEF llmops!Graph!Following, LLMOpsLayers
  <1>2. ASSUME NEW n \in LLMOpsNodes, next = {n}
        PROVE  llmops!Graph!Following = llmops!Successors(n, st)
    BY <1>2 DEF llmops!Graph!Following
  <1>3. ASSUME NEW n \in LLMOpsNodes
        PROVE  \/ n = "_analyze_traces" /\ llmops!Successors(n, st) = {"_optimize_prompts"}
               \/ n = "_optimize_prompts" /\ llmops!Successors(n, st) = {"_detect_drift"}
               \/ n = "_detect_drift" /\ llmops!Successors(n, st) = {"_compute_finops"}
               \/ n = "_compute_finops" /\ llmops!Successors(n, st) = {"_build_summary"}
               \/ n = "_build_summary" /\ llmops!Successors(n, st) = {}
    BY DEF llmops!Successors, LLMOpsNodes
  <1>4. CASE next # {}
    <2>1. PICK n \in LLMOpsNodes : next = {n} BY <1>4 DEF LLMOpsLayers
    <2> QED BY <1>2, <1>3, <2>1 DEF LLMOpsLayers, LLMOpsNodes
  <1> QED BY <1>1, <1>4

\* A next superstep of the LLMOps agent keeps its invariant.
LEMMA LLMOpsFollowStep ==
    ASSUME LLMOpsInv, Following(llmops!Graph!Following)
    PROVE  LLMOpsInv'
  <1>1. PICK following : following = llmops!Graph!Following OBVIOUS
  <1>2. RunTypes' BY RunTypesKept DEF LLMOpsInv
  <1>3. /\ status = "running" /\ done = next /\ following # {} /\ st' = st /\ status' = "running"
        /\ next' = following /\ done' = {}
    BY <1>1 DEF Following
  <1>4. /\ following \in LLMOpsLayers
        /\ "_compute_finops" \in following <=> next = {"_detect_drift"}
        /\ "_build_summary" \in following <=> next = {"_compute_finops"}
    BY <1>1, LLMOpsFollowing DEF LLMOpsInv
  <1>5. (Detected' <=> Detected) /\ (Totalled' <=> Totalled)
    <2>1. PICK n \in LLMOpsNodes : next = {n} /\ n # "_build_summary"
      BY <1>1, <1>3, LLMOpsFollowing DEF LLMOpsInv, LLMOpsLayers, llmops!Graph!Following
    <2> QED BY <1>3, <1>4, <2>1 DEF Detected, Totalled, LLMOpsNodes
  <1>6. AddsUp(st)' <=> AddsUp(st) BY <1>3 DEF AddsUp
  <1> QED BY <1>2, <1>3, <1>4, <1>5, <1>6 DEF LLMOpsInv

\* Every step of the LLMOps agent keeps its invariant.
LEMMA LLMOpsStep == LLMOpsInv /\ [llmops!Next]_agentVars => LLMOpsInv'
  <1> SUFFICES ASSUME LLMOpsInv, [llmops!Next]_agentVars PROVE LLMOpsInv'
    OBVIOUS
  <1>1. CASE \E n \in next : Returning(n) /\ st' \in llmops!Returns(n, read, st)
    BY <1>1, LLMOpsReturnStep
  <1>2. CASE Following(llmops!Graph!Following) BY <1>2, LLMOpsFollowStep
  <1>3. CASE Stopping(llmops!Graph!Following)
    <2>1. RunTypes' BY <1>3, RunTypesKept DEF LLMOpsInv
    <2>2. /\ status' \in {"ended", "failed"} /\ next' = {} /\ done' = {} /\ st' = st
          /\ status = "running"
      BY <1>3 DEF Stopping
    <2>3. status' = "ended" => next = {"_build_summary"}
      BY <1>3, LLMOpsFollowing DEF Stopping, LLMOpsInv, RunTypes
    <2>4. AddsUp(st)' <=> AddsUp(st) BY <2>2 DEF AddsUp
    <2>5. (status' = "ended" => Detected /\ Totalled) BY <2>3 DEF Detected, Totalled
    <2>6. (Detected' <=> status' = "ended") /\ (Totalled' <=> status' = "ended")
      BY <2>2 DEF Detected, Totalled
    <2> QED BY <2>1, <2>2, <2>4, <2>5, <2>6 DEF LLMOpsInv, LLMOpsLayers
  <1>4. CASE Verifying /\ llmops!verify
    <2>1. RunTypes' BY <1>4, RunTypesKept DEF LLMOpsInv
    <2>2. AddsUp(st)' <=> AddsUp(st) BY <1>4 DEF AddsUp, llmops!verify
    <2>3. Detected /\ Totalled BY <1>4 DEF Verifying, Detected, Totalled
    <2>4. status' = "returned" BY <1>4 DEF llmops!verify
    <2> QED BY <1>4, <2>1, <2>2, <2>3, <2>4 DEF Verifying, LLMOpsInv, llmops!verify
  <1>5. CASE UNCHANGED agentVars
    <2>1. RunTypes' BY <1>5, RunTypesKept DEF LLMOpsInv, agentVars
    <2>2. AddsUp(st)' <=> AddsUp(st) BY <1>5 DEF AddsUp, agentVars
    <2>3. (Detected' <=> Detected) /\ (Totalled' <=> Totalled)
      BY <1>5 DEF Detected, Totalled, agentVars
    <2> QED BY <1>5, <2>1, <2>2, <2>3 DEF agentVars, LLMOpsInv
  <1> QED BY <1>1, <1>2, <1>3, <1>4, <1>5, LLMOpsMoves

\* The type of a trace.
TraceRecords ==
    [agent_id : STRING, organization_id : STRING, tokens_used : Nat, verify_passed : BOOLEAN,
     coverage_score : Nat \cup {NoCoverage}, timestamp : Nat]

\* The traces of a run are finitely many, each of the type of traces.
LEMMA InputsAre ==
    ASSUME NEW traces \in Inputs
    PROVE  /\ traces \in Seq(TraceRecords)
           /\ IsFiniteSet(Indices(traces))
           /\ \A i \in Indices(traces) : traces[i] \in TraceRecords
  <1>1. traces \in Seq(TraceRecords) BY InputsAssumption DEF TraceRecords
  <1>2. Indices(traces) = 1..Len(traces) /\ Len(traces) \in Nat BY <1>1 DEF Indices
  <1>3. IsFiniteSet(1..Len(traces)) BY <1>2, FS_Interval
  <1> QED BY <1>1, <1>2, <1>3

\* The tokens of some of the traces, as a sum with the weights of them all.
LEMMA TokensOfSome ==
    ASSUME NEW traces \in Inputs, NEW D \in SUBSET Indices(traces)
    PROVE  /\ llmops!TokensOf(D, traces)
                = SumOver([i \in Indices(traces) |-> traces[i].tokens_used], D)
           /\ llmops!TokensOf(D, traces) \in Nat
  <1>1. IsFiniteSet(D) BY InputsAre, FS_Subset
  <1>2. PICK v, w : /\ v = [i \in D |-> traces[i].tokens_used]
                    /\ w = [i \in Indices(traces) |-> traces[i].tokens_used]
    OBVIOUS
  <1>3. \A i \in D : v[i] \in Nat /\ w[i] = v[i] BY <1>2, InputsAre DEF TraceRecords
  <1>4. SumOver(v, D) = SumOver(w, D) BY <1>1, <1>3, SumOfSame
  <1>5. SumOver(v, D) \in Nat BY <1>1, <1>3, SumIsNat
  <1> QED BY <1>1, <1>2, <1>4, <1>5, TokensAreASum

\* Tokens add up over the values of any key of the traces.
LEMMA TokensByKey ==
    ASSUME NEW traces \in Inputs, NEW key, key = [i \in Indices(traces) |-> key[i]],
           NEW K, K = {key[i] : i \in Indices(traces)},
           NEW tokens,
           tokens = [k \in K |-> llmops!TokensOf({i \in Indices(traces) : key[i] = k}, traces)]
    PROVE  llmops!TokensOf(Indices(traces), traces)
             = Summed(tokens)
  <1>1. PICK D, w : D = Indices(traces) /\ w = [i \in D |-> traces[i].tokens_used] OBVIOUS
  <1>2. IsFiniteSet(D) /\ \A i \in D : w[i] \in Nat BY <1>1, InputsAre DEF TraceRecords
  <1>3. key \in Surjection(D, K) BY <1>1 DEF Surjection
  <1>4. IsFiniteSet(K) /\ key \in [D -> K]
    <2>1. IsFiniteSet(K) BY <1>2, <1>3, FS_Surjection
    <2> QED BY <1>3, <2>1 DEF Surjection
  <1>5. PICK sums : sums = [k \in K |-> SumOver(w, {i \in D : key[i] = k})] OBVIOUS
  <1>6. SumOver(w, D) = SumOver(sums, K) BY <1>2, <1>4, <1>5, SumByKey
  <1>7. tokens = sums
    <2>1. \A k \in K : {i \in D : key[i] = k} \in SUBSET D OBVIOUS
    <2>2. \A k \in K : llmops!TokensOf({i \in D : key[i] = k}, traces)
                         = SumOver(w, {i \in D : key[i] = k})
      BY <1>1, <2>1, TokensOfSome
    <2> QED BY <1>1, <1>5, <2>2
  <1>8. llmops!TokensOf(D, traces) = SumOver(w, D) BY <1>1, TokensOfSome
  <1>9. DOMAIN tokens = K OBVIOUS
  <1>10. Summed(tokens) = SumOver(tokens, K) BY <1>4, <1>9, SummedOver
  <1> QED BY <1>1, <1>6, <1>7, <1>8, <1>9, <1>10

\* The tokens by agent and by organization add up to all tokens.
LEMMA TokensAddUp ==
    ASSUME NEW traces \in Inputs
    PROVE  /\ llmops!TokensOf(Indices(traces), traces)
                = Summed(TokensByAgent(traces))
           /\ llmops!TokensOf(Indices(traces), traces)
                = Summed(TokensByOrg(traces))
  <1>1. PICK key : key = [i \in Indices(traces) |-> traces[i].agent_id] OBVIOUS
  <1>2. PICK tokens : tokens = TokensByAgent(traces) OBVIOUS
  <1>3. tokens = [k \in {key[i] : i \in Indices(traces)} |->
                    llmops!TokensOf({i \in Indices(traces) : key[i] = k}, traces)]
    <2>1. {key[i] : i \in Indices(traces)} = llmops!Agents(traces)
      BY <1>1 DEF llmops!Agents, Indices
    <2>2. \A k : {i \in Indices(traces) : key[i] = k} = llmops!OfAgent(k, traces)
      BY <1>1 DEF llmops!OfAgent, Indices
    <2> QED BY <1>2, <2>1, <2>2 DEF TokensByAgent
  <1>4. llmops!TokensOf(Indices(traces), traces)
          = Summed(tokens)
    <2>1. PICK K : K = {key[i] : i \in Indices(traces)} OBVIOUS
    <2>2. key = [i \in Indices(traces) |-> key[i]] BY <1>1
    <2>3. tokens = [k \in K |-> llmops!TokensOf({i \in Indices(traces) : key[i] = k}, traces)]
      BY <1>3, <2>1
    <2> QED BY <2>1, <2>2, <2>3, TokensByKey
  <1>5. PICK org : org = [i \in Indices(traces) |-> traces[i].organization_id] OBVIOUS
  <1>6. PICK spent : spent = TokensByOrg(traces) OBVIOUS
  <1>7. spent = [k \in {org[i] : i \in Indices(traces)} |->
                   llmops!TokensOf({i \in Indices(traces) : org[i] = k}, traces)]
    <2>1. {org[i] : i \in Indices(traces)} = llmops!Organizations(traces)
      BY <1>5 DEF llmops!Organizations, Indices
    <2>2. \A k : {i \in Indices(traces) : org[i] = k} = OfOrganization(k, traces)
      BY <1>5 DEF OfOrganization
    <2> QED BY <1>6, <2>1, <2>2 DEF TokensByOrg
  <1>8. llmops!TokensOf(Indices(traces), traces)
          = Summed(spent)
    <2>1. PICK K : K = {org[i] : i \in Indices(traces)} OBVIOUS
    <2>2. org = [i \in Indices(traces) |-> org[i]] BY <1>5
    <2>3. spent = [k \in K |-> llmops!TokensOf({i \in Indices(traces) : org[i] = k}, traces)]
      BY <1>7, <2>1
    <2> QED BY <2>1, <2>2, <2>3, TokensByKey
  <1> QED BY <1>2, <1>4, <1>6, <1>8

\* The report has its type.
LEMMA LLMOpsTypes == LLMOpsInv => RunTypes /\ llmops!TypeOK
  <1> SUFFICES ASSUME LLMOpsInv PROVE llmops!TypeOK
    BY DEF LLMOpsInv
  <1>1. PICK traces : traces = st.traces OBVIOUS
  <1>2. st \in LLMOpsState(traces) /\ st.critical \subseteq st.drift_alerts
    BY <1>1 DEF LLMOpsInv
  <1>3. /\ traces \in Inputs /\ st.total_tokens \in LLMOpsTokens(traces)
        /\ st.top_issues \in LLMOpsNames(traces) /\ st.optimizations \in LLMOpsNames(traces)
        /\ st.routing_updates \in LLMOpsNames(traces) /\ st.drift_alerts \in LLMOpsAlerts(traces)
    BY <1>1, <1>2 DEF LLMOpsState
  <1>4. st.total_tokens \in Nat
    <2>1. Indices(traces) \in SUBSET Indices(traces) OBVIOUS
    <2>2. llmops!TokensOf(Indices(traces), traces) \in Nat BY <1>3, <2>1, TokensOfSome
    <2> QED BY <1>3, <2>2 DEF LLMOpsTokens
  <1> QED BY <1>1, <1>2, <1>3, <1>4 DEF LLMOpsNames, LLMOpsAlerts, llmops!TypeOK

-----------------------------------------------------------------------------
(* The order that traces come in *)

\* Where the shuffle p finds the members of S.
Back(p, S) == {i \in DOMAIN p : p[i] \in S}

\* LLMOps counts as the library does.
LEMMA CountedAlike == \A S : llmops!Cardinality(S) = Cardinality(S)
  BY DEF llmops!Cardinality, Cardinality

\* The total of a metric is a sum over the traces that have it.
LEMMA TotalIsASum ==
    ASSUME NEW metric, NEW traces, NEW D, IsFiniteSet(D)
    PROVE  llmops!Total(metric, D, traces)
             = SumOver([i \in D |-> llmops!Value(metric, traces[i])], D)
  <1> DEFINE iter[s \in SUBSET D] ==
               IF s = {} THEN 0
               ELSE llmops!Value(metric, traces[PickOf(s)]) + iter[s \ {PickOf(s)}]
  <1>1. llmops!Total(metric, D, traces) = iter[D]
    BY DEF llmops!Total, llmops!MapThenSumSet, llmops!MapThenFoldSet, PickOf
  <1>2. PICK w : w = [i \in D |-> llmops!Value(metric, traces[i])] OBVIOUS
  <1>3. \A f : Sums(w, f, D) <=>
               f = [s \in SUBSET D |->
                      IF s = {} THEN 0
                      ELSE llmops!Value(metric, traces[PickOf(s)]) + f[s \ {PickOf(s)}]]
    <2> TAKE f
    <2>1. \A s \in SUBSET D : s # {} => w[PickOf(s)] = llmops!Value(metric, traces[PickOf(s)])
      BY <1>2, PickIsIn
    <2> QED BY <2>1 DEF Sums, Adding
  <1>4. iter = CHOOSE f : Sums(w, f, D) BY <1>3
  <1>5. Sums(w, iter, D) BY <1>4, SumsExist
  <1>6. PICK f : Sums(w, f, D) /\ SumOver(w, D) = f[D] BY SumOverIs
  <1>7. iter[D] = f[D] BY <1>5, <1>6, SumsAgree
  <1> QED BY <1>1, <1>2, <1>6, <1>7

\* The ways to put D in another order.
Shuffles(D) == llmops!Bijection(D, D)

\* A shuffle takes each place once.
LEMMA ShuffleIsOneToOne ==
    ASSUME NEW D, NEW p \in Shuffles(D)
    PROVE  /\ p \in [D -> D]
           /\ \A i, j \in D : p[i] = p[j] => i = j
           /\ \A k \in D : \E i \in D : p[i] = k
  BY DEF Shuffles, llmops!Bijection, llmops!Injection, llmops!Surjection, llmops!IsInjective

\* What a shuffle moved has as many members as before.
LEMMA BackCarries ==
    ASSUME NEW D, IsFiniteSet(D), NEW p \in Shuffles(D), NEW S \in SUBSET D
    PROVE  /\ Back(p, S) \in SUBSET D /\ IsFiniteSet(Back(p, S)) /\ IsFiniteSet(S)
           /\ Cardinality(Back(p, S)) = Cardinality(S)
           /\ Back(p, S) = {} <=> S = {}
           /\ [i \in Back(p, S) |-> p[i]] \in [Back(p, S) -> S]
           /\ \A k \in S : \E i \in Back(p, S) : p[i] = k
  <1>1. /\ p \in [D -> D] /\ \A i, j \in D : p[i] = p[j] => i = j
        /\ \A k \in D : \E i \in D : p[i] = k
    BY ShuffleIsOneToOne
  <1>2. Back(p, S) \in SUBSET D BY <1>1 DEF Back
  <1>3. IsFiniteSet(Back(p, S)) /\ IsFiniteSet(S) BY <1>2, FS_Subset
  <1>4. PICK B, f : B = Back(p, S) /\ f = [i \in B |-> p[i]] OBVIOUS
  <1>5. f \in [B -> S] BY <1>1, <1>4 DEF Back
  <1>6. \A k \in S : \E i \in B : p[i] = k BY <1>1, <1>4 DEF Back
  <1>7. \A i, j \in B : f[i] = f[j] => i = j BY <1>1, <1>2, <1>4
  <1>8. f \in Bijection(B, S)
    BY <1>4, <1>5, <1>6, <1>7 DEF Bijection, Injection, Surjection, IsInjective
  <1>9. Cardinality(B) = Cardinality(S) BY <1>3, <1>4, <1>8, FS_Bijection DEF ExistsBijection
  <1>10. B = {} <=> S = {} BY <1>5, <1>6
  <1> QED BY <1>2, <1>3, <1>4, <1>5, <1>6, <1>9, <1>10

\* When no agent has two traces of one time, a shuffle leaves each trace in the same half.
LEMMA HalvesCarried ==
    ASSUME NEW traces \in Inputs, llmops!TimesDiffer(traces),
           NEW p \in Shuffles(Indices(traces)),
           NEW u, u = [i \in Indices(traces) |-> traces[p[i]]], NEW a
    PROVE  /\ llmops!OfAgent(a, u) = Back(p, llmops!OfAgent(a, traces))
           /\ llmops!Baseline(a, u) = Back(p, llmops!Baseline(a, traces))
           /\ llmops!Current(a, u) = Back(p, llmops!Current(a, traces))
  <1>1. PICK D : D = Indices(traces) OBVIOUS
  <1>2. /\ IsFiniteSet(D) /\ p \in [D -> D] /\ DOMAIN p = D /\ DOMAIN u = D
        /\ \A i, j \in D : p[i] = p[j] => i = j
    BY <1>1, InputsAre, ShuffleIsOneToOne
  <1>3. PICK own, back : own = llmops!OfAgent(a, traces) /\ back = llmops!OfAgent(a, u) OBVIOUS
  <1>4. back = Back(p, own)
    BY <1>1, <1>2, <1>3 DEF llmops!OfAgent, Back, Indices
  <1>5. own \in SUBSET D BY <1>1, <1>3 DEF llmops!OfAgent, Indices
  <1>6. ASSUME NEW i \in back, NEW j \in back
        PROVE  llmops!SortedBefore(j, i, u) <=> llmops!SortedBefore(p[j], p[i], traces)
    <2>1. i \in D /\ j \in D /\ p[i] \in own /\ p[j] \in own BY <1>2, <1>4 DEF Back
    <2>2. traces[p[i]].agent_id = traces[p[j]].agent_id
      BY <1>3, <2>1 DEF llmops!OfAgent
    <2>3. traces[p[i]].timestamp = traces[p[j]].timestamp => p[i] = p[j]
      BY <1>1, <1>5, <2>1, <2>2 DEF llmops!TimesDiffer, Indices
    <2>4. traces[p[i]].timestamp = traces[p[j]].timestamp => i = j BY <1>2, <2>1, <2>3
    <2>5. u[i] = traces[p[i]] /\ u[j] = traces[p[j]] BY <1>1, <2>1
    <2>6. i \in Nat /\ p[i] \in Nat
      BY <1>1, <1>2, <2>1, InputsAre DEF Indices
    <2>7. CASE traces[p[i]].timestamp = traces[p[j]].timestamp
      <3>1. i = j BY <2>4, <2>7
      <3>2. ~(i < i) /\ ~(p[i] < p[i]) BY <2>6
      <3>3. traces[p[i]].timestamp \in Nat
        BY <1>1, <1>2, <2>1, InputsAre DEF TraceRecords
      <3>4. ~(traces[p[i]].timestamp < traces[p[i]].timestamp) BY <3>3
      <3> QED BY <2>5, <3>1, <3>2, <3>4 DEF llmops!SortedBefore
    <2>8. CASE traces[p[i]].timestamp # traces[p[j]].timestamp
      BY <2>5, <2>8 DEF llmops!SortedBefore
    <2> QED BY <2>7, <2>8
  <1>7. ASSUME NEW i \in back
        PROVE  Cardinality({j \in back : llmops!SortedBefore(j, i, u)})
                 = Cardinality({k \in own : llmops!SortedBefore(k, p[i], traces)})
    <2>1. PICK S : S = {k \in own : llmops!SortedBefore(k, p[i], traces)} OBVIOUS
    <2>2. S \in SUBSET D BY <1>5, <2>1
    <2>3. {j \in back : llmops!SortedBefore(j, i, u)} = Back(p, S)
      BY <1>4, <1>6, <2>1 DEF Back
    <2>4. Cardinality(Back(p, S)) = Cardinality(S) BY <1>1, <1>2, <2>2, BackCarries
    <2> QED BY <2>1, <2>3, <2>4
  <1>8. Cardinality(back) = Cardinality(own) BY <1>1, <1>2, <1>4, <1>5, BackCarries
  <1>9. PICK base, early : base = llmops!Baseline(a, traces) /\ early = llmops!Baseline(a, u)
    OBVIOUS
  <1>10. /\ base = {k \in own : Cardinality({j \in own : llmops!SortedBefore(j, k, traces)})
                                  < Cardinality(own) \div 2}
         /\ early = {i \in back : Cardinality({j \in back : llmops!SortedBefore(j, i, u)})
                                  < Cardinality(back) \div 2}
    BY <1>3, <1>9, CountedAlike DEF llmops!Baseline
  <1>11. early = Back(p, base)
    <2>1. \A i \in back : i \in D /\ p[i] \in own BY <1>2, <1>4 DEF Back
    <2>2. \A i \in back : i \in early <=> p[i] \in base BY <1>7, <1>8, <1>10, <2>1
    <2>3. base \subseteq own /\ early \subseteq back BY <1>10
    <2>4. \A i \in D : p[i] \in own => i \in back BY <1>2, <1>4 DEF Back
    <2> QED BY <1>2, <2>1, <2>2, <2>3, <2>4 DEF Back
  <1>12. llmops!Current(a, u) = Back(p, llmops!Current(a, traces))
    BY <1>3, <1>4, <1>9, <1>11 DEF llmops!Current, Back
  <1> QED BY <1>3, <1>4, <1>9, <1>11, <1>12

\* Both halves are measured alike, whatever order the traces come in.
LEMMA TotalCarried ==
    ASSUME NEW traces \in Inputs, NEW p \in Shuffles(Indices(traces)),
           NEW u, u = [i \in Indices(traces) |-> traces[p[i]]],
           NEW metric \in llmops!Metrics, NEW S \in SUBSET Indices(traces)
    PROVE  LET m == llmops!Measured(metric, S, traces)
               n == llmops!Measured(metric, Back(p, S), u)
           IN  /\ llmops!Total(metric, n, u) = llmops!Total(metric, m, traces)
               /\ llmops!Cardinality(n) = llmops!Cardinality(m)
  <1>1. PICK D, m, n : /\ D = Indices(traces)
                       /\ m = llmops!Measured(metric, S, traces)
                       /\ n = llmops!Measured(metric, Back(p, S), u)
    OBVIOUS
  <1>2. /\ IsFiniteSet(D) /\ p \in [D -> D] /\ \A i, j \in D : p[i] = p[j] => i = j
    BY <1>1, InputsAre, ShuffleIsOneToOne
  <1>3. m \in SUBSET D BY <1>1 DEF llmops!Measured
  <1>4. n = Back(p, m) BY <1>1, <1>2 DEF llmops!Measured, Back
  <1>5. /\ n \in SUBSET D /\ IsFiniteSet(n) /\ IsFiniteSet(m)
        /\ Cardinality(n) = Cardinality(m)
        /\ [i \in n |-> p[i]] \in [n -> m] /\ \A k \in m : \E i \in n : p[i] = k
    <2>1. p \in Shuffles(D) BY <1>1
    <2>2. /\ Back(p, m) \in SUBSET D /\ IsFiniteSet(Back(p, m)) /\ IsFiniteSet(m)
          /\ Cardinality(Back(p, m)) = Cardinality(m)
          /\ [i \in Back(p, m) |-> p[i]] \in [Back(p, m) -> m]
          /\ \A k \in m : \E i \in Back(p, m) : p[i] = k
      BY <1>2, <1>3, <2>1, BackCarries
    <2> QED BY <1>4, <2>2
  <1>6. PICK f, w, v : /\ f = [i \in n |-> p[i]]
                       /\ w = [i \in n |-> llmops!Value(metric, u[i])]
                       /\ v = [k \in m |-> llmops!Value(metric, traces[k])]
    OBVIOUS
  <1>7. ASSUME NEW k \in m PROVE v[k] \in Nat
    <2>1. PICK t : t = traces[k] OBVIOUS
    <2>2. t \in TraceRecords BY <1>1, <1>3, <2>1, InputsAre
    <2>3. metric = "coverage_score" => t.coverage_score \in Nat
      BY <1>1, <2>1, <2>2 DEF llmops!Measured, TraceRecords
    <2>4. t.tokens_used \in Nat BY <2>2 DEF TraceRecords
    <2>5. llmops!Value(metric, t) \in Nat
      BY <2>3, <2>4 DEF llmops!Value, llmops!Metrics
    <2> QED BY <1>6, <2>1, <2>5
  <1>8. f \in [n -> m] BY <1>5, <1>6
  <1>9. \A i \in n : w[i] = v[f[i]]
    <2> TAKE i \in n
    <2>1. i \in D /\ f[i] = p[i] /\ p[i] \in m BY <1>5, <1>6, <1>8
    <2>2. u[i] = traces[p[i]] BY <1>1, <2>1
    <2> QED BY <1>6, <2>1, <2>2
  <1>10. \A i \in n : w[i] \in Nat /\ v[f[i]] = w[i] BY <1>7, <1>8, <1>9
  <1>11. /\ \A i, j \in n : f[i] = f[j] => i = j
         /\ \A k \in m : \E i \in n : f[i] = k
    BY <1>2, <1>5, <1>6
  <1>12. SumOver(w, n) = SumOver(v, m) BY <1>5, <1>8, <1>10, <1>11, SumCarried
  <1>13. llmops!Total(metric, n, u) = llmops!Total(metric, m, traces)
    BY <1>5, <1>6, <1>12, TotalIsASum
  <1> QED BY <1>1, <1>5, <1>13, CountedAlike

\* The alerts of an agent are the same for traces that are shuffled.
LEMMA AlertsCarried ==
    ASSUME NEW traces \in Inputs, llmops!TimesDiffer(traces),
           NEW p \in Shuffles(Indices(traces)),
           NEW u, u = [i \in Indices(traces) |-> traces[p[i]]],
           NEW metric \in llmops!Metrics, NEW a
    PROVE  llmops!AlertsOf(a, metric, u) = llmops!AlertsOf(a, metric, traces)
  <1>1. PICK b, c : b = llmops!Baseline(a, traces) /\ c = llmops!Current(a, traces) OBVIOUS
  <1>2. b \in SUBSET Indices(traces) /\ c \in SUBSET Indices(traces)
    BY <1>1 DEF llmops!Baseline, llmops!Current, llmops!OfAgent, Indices
  <1>3. llmops!Baseline(a, u) = Back(p, b) /\ llmops!Current(a, u) = Back(p, c)
    BY <1>1, HalvesCarried
  <1>4. Back(p, b) = {} <=> b = {} BY <1>2, InputsAre, BackCarries
  <1> DEFINE Mean(half, of) ==
               LET m == llmops!Measured(metric, half, of)
               IN  [sum |-> llmops!Total(metric, m, of), of |-> llmops!Cardinality(m)]
  <1>5. Mean(Back(p, b), u) = Mean(b, traces) BY <1>2, TotalCarried
  <1>6. Mean(Back(p, c), u) = Mean(c, traces) BY <1>2, TotalCarried
  <1>7. \A of : llmops!AlertsOf(a, metric, of) =
                  IF llmops!Baseline(a, of) = {} THEN {}
                  ELSE llmops!_make_drift_alert(a, metric, Mean(llmops!Baseline(a, of), of),
                                                Mean(llmops!Current(a, of), of))
    BY DEF llmops!AlertsOf
  <1> HIDE DEF Mean
  <1> QED BY <1>1, <1>3, <1>4, <1>5, <1>6, <1>7

\* The drift of traces is the same whatever order they came in.
LEMMA DriftCarried ==
    ASSUME NEW traces \in Inputs, llmops!TimesDiffer(traces), NEW u \in llmops!Reordered(traces)
    PROVE  llmops!DriftIn(u) = llmops!DriftIn(traces)
  <1>1. PICK p \in Shuffles(Indices(traces)) : u = [i \in Indices(traces) |-> traces[p[i]]]
    BY DEF llmops!Reordered, Shuffles, Indices
  <1>2. /\ p \in [Indices(traces) -> Indices(traces)]
        /\ \A k \in Indices(traces) : \E i \in Indices(traces) : p[i] = k
    BY ShuffleIsOneToOne
  <1>3. llmops!Agents(u) = llmops!Agents(traces)
    BY <1>1, <1>2 DEF llmops!Agents, Indices
  <1>4. Len(u) = Len(traces)
    <2>1. /\ traces \in Seq(TraceRecords) /\ \A i \in Indices(traces) : traces[i] \in TraceRecords
      BY InputsAre
    <2>2. Indices(traces) = 1..Len(traces) /\ Len(traces) \in Nat BY <2>1 DEF Indices
    <2>3. u \in [1..Len(traces) -> TraceRecords] BY <1>1, <1>2, <2>1, <2>2
    <2> QED BY <2>2, <2>3
  <1>5. \A a, m : m \in llmops!Metrics => llmops!AlertsOf(a, m, u) = llmops!AlertsOf(a, m, traces)
    BY <1>1, AlertsCarried
  <1>6. \A of, x : x \in llmops!DriftIn(of) <=>
                    /\ ~(Len(of) < 4)
                    /\ \E a \in llmops!Agents(of), m \in llmops!Metrics :
                          x \in llmops!AlertsOf(a, m, of)
    BY DEF llmops!DriftIn
  <1>7. \A x : x \in llmops!DriftIn(u) <=> x \in llmops!DriftIn(traces)
    BY <1>3, <1>4, <1>5, <1>6
  <1>8. PICK D, E : D = llmops!DriftIn(u) /\ E = llmops!DriftIn(traces) OBVIOUS
  <1>9. D = E BY <1>7, <1>8
  <1> QED BY <1>8, <1>9

\* A report that is returned has its drift and its sums.
LEMMA LLMOpsReturned ==
    ASSUME LLMOpsInv, status = "returned"
    PROVE  /\ st.traces \in Inputs
           /\ st.drift_alerts = llmops!DriftIn(st.traces)
           /\ AddsUp(st)
  <1>1. Detected /\ Totalled BY DEF Detected, Totalled
  <1>2. st \in LLMOpsState(st.traces) BY DEF LLMOpsInv
  <1>3. PICK traces : traces = st.traces OBVIOUS
  <1>4. st \in LLMOpsState(traces) BY <1>2, <1>3
  <1>5. st.traces \in Inputs BY <1>4 DEF LLMOpsState
  <1> QED BY <1>1, <1>5 DEF LLMOpsInv

\* The sums of a report that is returned add up.
LEMMA LLMOpsSums ==
    ASSUME LLMOpsInv, status = "returned"
    PROVE  /\ st.total_tokens = llmops!MapThenSumSet(LAMBDA a : st.by_agent[a], DOMAIN st.by_agent)
           /\ st.total_tokens = llmops!MapThenSumSet(LAMBDA o : st.by_org[o], DOMAIN st.by_org)
  <1>1. st.traces \in Inputs /\ AddsUp(st) BY LLMOpsReturned
  <1>2. st.total_tokens = Summed(st.by_agent) BY <1>1, TokensAddUp DEF AddsUp
  <1>3. st.total_tokens = Summed(st.by_org) BY <1>1, TokensAddUp DEF AddsUp
  <1> QED BY <1>2, <1>3 DEF Summed

\* A report that is returned is of the traces, in whatever order.
LEMMA LLMOpsHolds == LLMOpsInv => llmops!ReportIsOfTheTraces
  <1> SUFFICES ASSUME LLMOpsInv, status = "returned"
               PROVE  /\ st.total_tokens
                           = llmops!MapThenSumSet(LAMBDA a : st.by_agent[a], DOMAIN st.by_agent)
                      /\ st.total_tokens
                           = llmops!MapThenSumSet(LAMBDA o : st.by_org[o], DOMAIN st.by_org)
                      /\ llmops!TimesDiffer(st.traces) =>
                           \A traces \in llmops!Reordered(st.traces) :
                              llmops!DriftIn(traces) = st.drift_alerts
    BY DEF llmops!ReportIsOfTheTraces
  <1>1. /\ st.total_tokens = llmops!MapThenSumSet(LAMBDA a : st.by_agent[a], DOMAIN st.by_agent)
        /\ st.total_tokens = llmops!MapThenSumSet(LAMBDA o : st.by_org[o], DOMAIN st.by_org)
    BY LLMOpsSums
  <1>2. ASSUME llmops!TimesDiffer(st.traces)
        PROVE  \A traces \in llmops!Reordered(st.traces) : llmops!DriftIn(traces) = st.drift_alerts
    BY <1>2, LLMOpsReturned, DriftCarried
  <1> QED BY <1>1, <1>2

-----------------------------------------------------------------------------
(* All agents *)

\* Whichever agent runs, its invariant holds.
AgentsInv ==
    /\ agent \in {"architect", "strategy", "marketing", "research", "planner", "coder", "llmops"}
    /\ agent = "architect" => ArchitectInv
    /\ agent = "strategy"  => StrategyInv
    /\ agent = "marketing" => MarketingInv
    /\ agent = "research"  => ResearchInv
    /\ agent = "planner"   => PlannerInv
    /\ agent = "coder"     => CoderInv
    /\ agent = "llmops"    => LLMOpsInv

\* Each agent's initial states satisfy its invariant.
LEMMA AgentsInvInit == AgentsInit => AgentsInv
  BY ArchitectInit, StrategyInit, MarketingInit, ResearchInit, PlannerInit, CoderInit, LLMOpsInit
  DEF AgentsInit, AgentsInv

\* Each agent's steps keep its invariant; none becomes another agent.
LEMMA AgentsInvStep == AgentsInv /\ [AgentsNext]_agentVars => AgentsInv'
  <1> SUFFICES ASSUME AgentsInv, [AgentsNext]_agentVars PROVE AgentsInv'
    OBVIOUS
  <1>1. agent' = agent BY DEF AgentsNext, agentVars
  <1>2. CASE agent = "architect"
    <2>1. ArchitectInv' BY <1>2, ArchitectStep DEF AgentsInv, AgentsNext
    <2> QED BY <1>1, <1>2, <2>1 DEF AgentsInv
  <1>3. CASE agent = "strategy"
    <2>1. StrategyInv' BY <1>3, StrategyStep DEF AgentsInv, AgentsNext
    <2> QED BY <1>1, <1>3, <2>1 DEF AgentsInv
  <1>4. CASE agent = "marketing"
    <2>1. MarketingInv' BY <1>4, MarketingStep DEF AgentsInv, AgentsNext
    <2> QED BY <1>1, <1>4, <2>1 DEF AgentsInv
  <1>5. CASE agent = "research"
    <2>1. ResearchInv' BY <1>5, ResearchStep DEF AgentsInv, AgentsNext
    <2> QED BY <1>1, <1>5, <2>1 DEF AgentsInv
  <1>6. CASE agent = "planner"
    <2>1. PlannerInv' BY <1>6, PlannerStep DEF AgentsInv, AgentsNext
    <2> QED BY <1>1, <1>6, <2>1 DEF AgentsInv
  <1>7. CASE agent = "coder"
    <2>1. CoderInv' BY <1>7, CoderStep DEF AgentsInv, AgentsNext
    <2> QED BY <1>1, <1>7, <2>1 DEF AgentsInv
  <1>8. CASE agent = "llmops"
    <2>1. LLMOpsInv' BY <1>8, LLMOpsStep DEF AgentsInv, AgentsNext
    <2> QED BY <1>1, <1>8, <2>1 DEF AgentsInv
  <1> QED BY <1>2, <1>3, <1>4, <1>5, <1>6, <1>7, <1>8 DEF AgentsInv

\* The invariant holds throughout.
LEMMA AgentsInvariant == AgentsSpec => []AgentsInv
  BY AgentsInvInit, AgentsInvStep, PTL DEF AgentsSpec

-----------------------------------------------------------------------------
(* The theorems about the agents *)

\* Each agent's state keeps its type through its run, whatever order the nodes of a
\* superstep return in and whichever of them raises, and a superstep's nodes have all
\* returned before the next one begins (the graphs that the agents' graph.py build).
THEOREM AgentsTypeCorrect == AgentsSpec => []AgentsTypeOK
  <1>1. AgentsInv => AgentsTypeOK
    <2> SUFFICES ASSUME AgentsInv PROVE AgentsTypeOK
      OBVIOUS
    <2>1. RunTypes
      BY ArchitectHolds, StrategyHolds, MarketingHolds, ResearchHolds, PlannerHolds, CoderHolds,
         LLMOpsTypes
      DEF AgentsInv
    <2>2. /\ agent = "architect" => architect!TypeOK
          /\ agent = "strategy"  => strategy!TypeOK
          /\ agent = "marketing" => marketing!TypeOK
          /\ agent = "research"  => research!TypeOK
          /\ agent = "planner"   => planner!TypeOK
          /\ agent = "coder"     => coder!TypeOK
          /\ agent = "llmops"    => llmops!TypeOK
      BY ArchitectHolds, StrategyHolds, MarketingHolds, ResearchHolds, PlannerHolds, CoderHolds,
         LLMOpsTypes
      DEF AgentsInv
    <2> QED BY <2>1, <2>2 DEF AgentsInv, AgentsTypeOK, RunTypes
  <1> QED BY <1>1, AgentsInvariant, PTL

\* Whenever the architect waits at its gate or has returned, the design is complete and
\* its parts were made for the stack it has now, also when the stack was selected again
\* (route_after_hitl, agents/architect).
THEOREM DesignsAreOfOneStack == AgentsSpec => []DesignIsOfOneStack
  <1>1. AgentsInv => DesignIsOfOneStack BY ArchitectHolds DEF AgentsInv, DesignIsOfOneStack
  <1> QED BY <1>1, AgentsInvariant, PTL

\* A strategy package that is returned has every part of its synthesis, and fewer of the
\* parts it rests on failed than would have ended the run (route_after_join,
\* agents/strategy).
THEOREM PackagesRestOnResearch == AgentsSpec => []PackageRestsOnResearch
  <1>1. AgentsInv => PackageRestsOnResearch BY StrategyHolds DEF AgentsInv, PackageRestsOnResearch
  <1> QED BY <1>1, AgentsInvariant, PTL

\* What marketing schedules has been audited and, where the founder's answer is waited
\* for, approved: with REDIS_URL and an APP_ENV other than development.  Without
\* REDIS_URL nothing waits for it (agents/marketing).
THEOREM PublishedIsAlwaysChecked == AgentsSpec => []PublishedIsChecked
  <1>1. AgentsInv => PublishedIsChecked BY MarketingHolds DEF AgentsInv, PublishedIsChecked
  <1> QED BY <1>1, AgentsInvariant, PTL

\* Research returns its findings with the score computed from them (agents/research).
THEOREM ScoresAreOfTheFindings == AgentsSpec => []ScoreIsOfTheFindings
  <1>1. AgentsInv => ScoreIsOfTheFindings BY ResearchHolds DEF AgentsInv, ScoreIsOfTheFindings
  <1> QED BY <1>1, AgentsInvariant, PTL

\* LLMOps' token counts add up by agent and by organization for any traces, and its
\* drift alerts are the same in whatever order they came, when no agent has two traces of
\* one time: sorted() keeps these in the order they came (_detect_drift).
THEOREM ReportsAreOfTheTraces == AgentsSpec => []ReportIsOfTheTraces
  <1>1. AgentsInv => ReportIsOfTheTraces BY LLMOpsHolds DEF AgentsInv, ReportIsOfTheTraces
  <1> QED BY <1>1, AgentsInvariant, PTL

=============================================================================
