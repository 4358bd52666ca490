CONSTANTS
    MaxServices = 1
    Requests = {r1, r2}
    MaxAttempts = 2
    SLA = 2
    GateTimeout = 3
    DecisionTTL = 4
SPECIFICATION FairSpec
INVARIANTS TypeOK SpendIsApproved SuccessIsDeployed
PROPERTIES DecisionOutlivesItsGate AttemptEnds
CHECK_DEADLOCK FALSE
