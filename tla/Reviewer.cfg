CONSTANTS
    MaxHealCycles = 2
    RecursionLimit = 20
SPECIFICATION FairSpec
INVARIANTS TypeOK HealLoopIsBounded VerdictsAreVerified ImagesAreTornDown
PROPERTIES ReviewEnds
CHECK_DEADLOCK FALSE
