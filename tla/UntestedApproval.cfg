CONSTANTS
    MaxHealCycles = 5
    RecursionLimit = 70
SPECIFICATION Spec
INVARIANTS ApprovedIsTested
CHECK_DEADLOCK FALSE
