SPECIFICATION FairSpec
CONSTANTS
    Clients = {c1, c2}
    Leagues = {l1}
    Variants = {1}
    Conditions = {captain}
    NoCondition = none
    NoLeague = noleague
    NoClient = nobody
    FetchStripes <- OneStripe
    AnalysisStripes <- OneStripe
    OutlookStripes <- OneStripe
    FetchStripe <- CollidingFetch
    AnalysisStripe <- CollidingAnalysis
    OutlookStripe <- CollidingOutlook
    SnapTTL = 1
    GenTTL = 2
    SnapCap = 1
    GenCap = 2
    AnalysisCap = 1
    EnrichCap = 1
    OutlookCap = 2
    MaxGen = 2
    MaxTime = 1
    MaxCalls = 3
CHECK_DEADLOCK FALSE
PROPERTIES
    EveryRequestAnswered
