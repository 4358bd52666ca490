SPECIFICATION FairSpec
CONSTANTS
    Ideas = {blank, first, second}
    BlankIdea = blank
    NoPivot = nopivot
    MaxPivotRetries = 3
    SlotKinds = {"stub", "real"}
    MaxCrashes = 2
INVARIANTS TypeOK PivotBound NoPillarWithoutApproval
PROPERTIES ImplementsGatedPipeline RunEnds
