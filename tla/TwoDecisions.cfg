SPECIFICATION Spec
CONSTANTS
    Ideas = {first, second}
    BlankIdea = blank
    NoPivot = nopivot
    MaxPivotRetries = 1
    SlotKinds = {"stub"}
    NoRun = norun
    Answers = {"approved", "rejected"}
    DurableQueue = FALSE
    Handlers = {h1, h2}
    Scenarios <- TwoRequests
    MaxFailures = 0
CHECK_DEADLOCK FALSE
PROPERTY DecisionReachesItsGate
