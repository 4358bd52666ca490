SPECIFICATION FairSpec
CONSTANTS
    Ideas = {blank, first}
    BlankIdea = blank
    NoPivot = nopivot
    MaxPivotRetries = 1
    SlotKinds = {"stub", "real"}
    NoRun = norun
    Answers = {"pending", "approved", "rejected", "timed_out"}
    DurableQueue = FALSE
    Handlers = {h1}
    Scenarios <- OneRun
    MaxFailures = 1
CHECK_DEADLOCK FALSE
INVARIANTS TypeOK Settled
PROPERTIES UndisturbedDecisionReachesItsGate ImplementsGatedPipeline ApprovalAdvances
