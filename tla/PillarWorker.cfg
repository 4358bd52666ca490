SPECIFICATION FairSpec
CONSTANTS
    Loops = {a, b}
    MaxAttempts = 5
    MaxReceives = 5
CHECK_DEADLOCK FALSE
INVARIANTS TypeOK GivenUpAfterLastAttempt ApprovalsAreRecorded
PROPERTIES TaskSettles
