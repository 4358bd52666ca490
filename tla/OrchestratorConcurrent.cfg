SPECIFICATION Spec
CONSTANTS
    Ideas = {first}
    BlankIdea = blank
    NoPivot = nopivot
    MaxPivotRetries = 1
    SlotKinds = {"stub"}
    NoRun = norun
    Answers = {"pending", "approved", "rejected", "timed_out"}
    DurableQueue = FALSE
    Handlers = {h1, h2}
    Scenarios <- Pairs
    MaxFailures = 0
CHECK_DEADLOCK FALSE
INVARIANTS OutputsInOrder
PROPERTIES  CancelIsFinal
