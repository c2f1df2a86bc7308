SPECIFICATION ForecastsSpec
CONSTANTS
    Clients = {c1, c2}
    Leagues = {l1, l2}
    Variants = {1}
    Conditions = {captain}
    NoCondition = none
    NoLeague = noleague
    NoClient = nobody
    FetchStripes <- OneStripe
    AnalysisStripes <- OneStripe
    OutlookStripes <- OneStripe
    FetchStripe <- CollidingFetch
    AnalysisStripe <- CollidingAnalysis
    OutlookStripe <- CollidingOutlook
    SnapTTL = 1
    GenTTL = 1
    SnapCap = 1
    GenCap = 2
    AnalysisCap = 1
    EnrichCap = 1
    OutlookCap = 2
    MaxGen = 3
    MaxTime = 1
    MaxCalls = 3
    Threads = {t1, t2}
    Nobody = nobody
    Squad <- SquadOf
    Matches = {"m"}
    Played <- PlayedOf
    AtMost = 1
    Slots = 2
    Workers = 1
    MaxGens = 2
    MaxJobs = 2
    MaxEvents = 3
SYMMETRY AllSymmetry
CHECK_DEADLOCK FALSE
INVARIANTS
    FetchesCoalesced
    AnswersFromNamedSource
    RefreshIsFresh
    SourceRetained
    EnrichmentSound
