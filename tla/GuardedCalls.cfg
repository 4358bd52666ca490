CONSTANTS
    Callers = {c1,c2,c3}
    FailureThreshold = 2
    RateLimit = 2
SPECIFICATION GFairSpec
INVARIANTS GTypeOK LLMCallsAreAudited
PROPERTIES OpensAfterThreshold RecoversBehindGuard
