--------------------------- MODULE CircuitBreaker ---------------------------
(***************************************************************************)
(* agents/base.py: one CircuitBreaker and the calls that share it.  The    *)
(* nodes of an agent's graph, and the sources of the research agent's      *)
(* fan-out, run at the same time; between its admission and its outcome    *)
(* each call awaits, and finds the breaker as the others have left it.     *)
(*                                                                         *)
(* Time is one fact: has reset_timeout passed since the last failure?      *)
(* The counters stop at the threshold, beyond which nothing tells them     *)
(* apart.                                                                  *)
(***************************************************************************)
EXTENDS Naturals

CONSTANTS
    Callers,           \* the tasks that call through the breaker
    FailureThreshold   \* failure_threshold

ASSUME ThresholdAssumption == FailureThreshold \in Nat \ {0}

VARIABLES
    state,      \* CircuitState
    failures,   \* failures since the breaker was last closed, or last returned a result
    cooled,     \* has reset_timeout passed since last_failure_time?
    call,       \* of each caller: no call, one that may fail, or one that will succeed
    healthy,    \* does the provider answer the calls that begin now?
    streak      \* history: the outcomes since the last success, all of them failures

vars == <<state, failures, cooled, call, healthy, streak>>

TypeOK ==
    /\ state \in {"closed", "open", "half_open"}
    /\ failures \in 0..FailureThreshold
    /\ cooled \in BOOLEAN
    /\ call \in [Callers -> {"none", "may_fail", "will_succeed"}]
    /\ healthy \in BOOLEAN
    /\ streak \in 0..FailureThreshold

Init ==
    /\ state = "closed"
    /\ failures = 0
    /\ cooled = TRUE
    /\ call = [c \in Callers |-> "none"]
    /\ healthy \in BOOLEAN
    /\ streak = 0

Counted(n) == IF n < FailureThreshold THEN n + 1 ELSE n

-----------------------------------------------------------------------------

\* call, up to its await.  A call that is rejected changes nothing.
admit(c) ==
    /\ call[c] = "none"
    /\ state = "open" => cooled
    /\ state' = IF state = "open" THEN "half_open" ELSE state
    /\ call' = [call EXCEPT ![c] = IF healthy THEN "will_succeed" ELSE "may_fail"]
    /\ UNCHANGED <<failures, cooled, healthy, streak>>

\* Mutant: a success is noticed by a closed breaker only.
succeed_unnoticed(c) ==
    /\ call[c] # "none"
    /\ failures' = IF state = "closed" THEN 0 ELSE failures
    /\ call' = [call EXCEPT ![c] = "none"]
    /\ streak' = 0
    /\ UNCHANGED <<state, cooled, healthy>>

\* An open breaker takes no notice of a success.
succeed(c) ==
    /\ call[c] # "none"
    /\ state' = IF state = "half_open" THEN "closed" ELSE state
    /\ failures' = IF state = "open" THEN failures ELSE 0
    /\ call' = [call EXCEPT ![c] = "none"]
    /\ streak' = 0
    /\ UNCHANGED <<cooled, healthy>>

\* Also a call admitted long ago opens a half-open breaker, and lets the time of an
\* open one begin anew.
fail(c) ==
    /\ call[c] = "may_fail"
    /\ failures' = Counted(failures)
    /\ cooled' = FALSE
    /\ state' = IF state = "half_open" \/ failures' = FailureThreshold THEN "open" ELSE state
    /\ call' = [call EXCEPT ![c] = "none"]
    /\ streak' = Counted(streak)
    /\ UNCHANGED healthy

\* A call that times out is cancelled: CancelledError is no Exception, and the breaker
\* does not hear of it.
cancel(c) ==
    /\ call[c] = "may_fail"
    /\ call' = [call EXCEPT ![c] = "none"]
    /\ UNCHANGED <<state, failures, cooled, healthy, streak>>

reset_timeout ==
    /\ ~cooled
    /\ cooled' = TRUE
    /\ UNCHANGED <<state, failures, call, healthy, streak>>

\* The provider recovers.
recover ==
    /\ ~healthy
    /\ healthy' = TRUE
    /\ UNCHANGED <<state, failures, cooled, call, streak>>

Outcome(c) == succeed(c) \/ fail(c) \/ cancel(c)

Next ==
    \/ \E c \in Callers : admit(c) \/ Outcome(c)
    \/ reset_timeout \/ recover

Spec == Init /\ [][Next]_vars

-----------------------------------------------------------------------------
(* Properties *)

\* A closed breaker opens only after FailureThreshold outcomes in a row were failures,
\* whenever those calls were admitted and whatever the breaker went through meanwhile:
\* no failure from before a success is held against the provider (CircuitBreaker.call).
OpensAfterThreshold ==
    [][state = "closed" /\ state' = "open" => streak' = FailureThreshold]_vars

\* When the provider has recovered, the breaker closes and stays closed, though calls
\* from before may still fail and open it, and though any call may have been
\* cancelled while the breaker was half-open (CircuitBreaker.call).  GuardedCalls
\* states the fairness under which it holds.
Recovers == <>[](healthy => state = "closed")

=============================================================================
