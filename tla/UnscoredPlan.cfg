SPECIFICATION PlannerSpec
CONSTANT PlannerLimit = 25
INVARIANT ScoreIsOfThePlan
CHECK_DEADLOCK FALSE
