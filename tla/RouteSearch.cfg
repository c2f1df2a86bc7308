SPECIFICATION LeagueSpec
CONSTANTS
    Players = {1, 2, 3, 4, 5, 6, 7, 8, 9, 10, 11, 12, 13, 14, 15}
    Teams <- Sides
    Managers = {1, 2}
    Position <- PositionOf
    Team <- TeamOf
    Fixtures <- Games
    Lineups <- Picked
    Low <- Least10
    High = 35
    Leagues <- Asked
    Limits = {2}
    Breadths = {2, 3}
    MaxLineups = 4
    MaxCuts = 1
    Gameweeks = {1, 2}
    Matches = {"m1", "m2", "m3"}
    MatchesIn <- Weeks
    Clubs <- ClubsOf
    Roster = {"p", "q"}
    ClubOf <- ClubOfPlayer
    Entries <- Joining
    FirstWeek <- FirstSquad
    PageSize = 2
    Caps = {1, 2, 99}
    Unlimited = 99
    MaxMoves = 2
    Jobs = {"j", "k"}
    Mapped = {"m1", "m2"}
    Budget = 2
    AtOnce = 2
    Wanted <- AskedFor
    Answers <- SaidOf
    LineupSize = 2
    KnownIds = {"a", "c", "d", "y"}
    NoJob = "none"
    MaxDays = 2
    Home = home
    Away = away
    Nobody = nobody
    Untold = untold
    NoTime = notime
CHECK_DEADLOCK FALSE
INVARIANTS
    SearchIsTrue
    SnapshotTrue
    BudgetKept
    OnFieldAsListed
    ForecastHonest
    OutlookAgrees
