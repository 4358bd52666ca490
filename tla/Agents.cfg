SPECIFICATION AgentsSpec
CONSTANTS
    RecursionLimit = 25
    MaxRetries = 3
    NoCoverage = NoCoverage
    Inputs <- MCInputs
INVARIANTS AgentsTypeOK DesignIsOfOneStack PackageRestsOnResearch PublishedIsChecked ScoreIsOfTheFindings ReportIsOfTheTraces
CHECK_DEADLOCK FALSE
