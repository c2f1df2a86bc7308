SPECIFICATION FiguresSpec
CONSTANTS
    Players = {1, 2, 3, 4, 5, 6, 7, 8, 9, 10, 11, 12, 13, 14, 15, 16, 17}
    Position <- PositionOf
    Club <- ClubOf
    Price <- PriceOf
    Loaded <- LoadedSquad
    Forecasts <- Horizons
    Unknown = "unknown"
    Contenders = {4, 7, 8, 12, 13, 16}
    Rests <- Rested
    Windows <- OpenWindows
    Outgoing = {11}
    Incoming = {16, 17}
    Funds = {0, 1}
    Selling = {5, 6}
    Allowances = {0, 1}
    MaxPlans = 3
    MaxFree = 5
    Shortlist = 1
    Members = {ann, bob, cat, dan}
    Weeks = {1, 2}
    Rows <- Published
    Selections <- Finals
    PositionIn <- PositionsKnown
    NoPosition = "unknown"
    SquadSize = 3
    Starting = 2
    MaxDetails = 2
SYMMETRY Anyone
CHECK_DEADLOCK FALSE
INVARIANTS
    PlansAreReal
    TablesAgree
