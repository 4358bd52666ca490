SPECIFICATION Spec
CONSTANTS
    Tasks = {t1, t2}
    MaxCheckpoints = 4
    Missing = missing
INVARIANTS CacheIsDurable LatestIsTheRuns
PROPERTIES ReadsLatestUndisturbed
