SPECIFICATION RecordsSpec
CONSTANTS
    Gameweeks = {1}
    Stages <- TwoStages
    Opens <- StageOpens
    Closes <- StageCloses
    Rank <- StageRank
    MinLead = 2
    Acknowledged = {}
    Actual = "actual"
    FirstDeadlines <- Announced
    MaxTime = 5
    MaxRuns = 3
    MaxFaults = 1
    Outlooks <- RiskOutlooks
    Keep = 4
    Overall = 5
    Serve = 2
    Delay = 1
    Cached = 1
    MaxRecords = 5
CHECK_DEADLOCK FALSE
INVARIANTS
    PublishedInTime
    OriginalCandidate
    HonestSuccess
    EvaluatedFairly
    NewestServed
