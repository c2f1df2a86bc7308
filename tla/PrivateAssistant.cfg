SPECIFICATION SidesSpec
CONSTANTS
    Addresses = {a1}
    Logins = {l1}
    Tokens = {s1}
    SessionSeconds = 3
    IdleSeconds = 2
    Window = 2
    PerAddress = 1
    GlobalLimit = 1
    MaxAddresses = 2
    HashSlots = 1
    MaxSessions = 1
    MaxTime = 3
    MaxAttempts = 1
    Requests = {r1, r2}
    NoOne = NoOne
    Deadlines = {2, 9}
    ForecastTTL = 2
    SquadTTL = 2
    MaxSquads = 1
    MaxDownloads = 2
    Sessions = {p1, p2}
    NoSession = NoSession
    Teams = {t1, t2}
    NoTeam = NoTeam
    Horizons = {1, 3}
    Models = {statistical, components}
    HorizonAtFirst = 3
    ModelAtFirst = statistical
    Nothing = Nothing
    MaxPolls = 1
    MaxEvents = 4
SYMMETRY Interchangeable
CHECK_DEADLOCK FALSE
INVARIANTS
    FreshAfterRefresh
    LockedShowsNothing
    SelectionShown
PROPERTIES
    RevokedGetsNothing
