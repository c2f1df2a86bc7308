SPECIFICATION Spec
CONSTANTS
    Players = {1, 2, 3, 4, 5, 6, 7, 8, 9, 10, 11, 12, 13, 14, 15}
    Teams <- Clubs
    Managers = {1, 2}
    Position <- PositionOf
    Team <- TeamOf
    Fixtures <- Matches
    Lineups <- Picked
    Starts <- Begun
    Low <- Least
    High <- Most
    Swings <- Changes
    Points <- Reachable
CHECK_DEADLOCK FALSE
INVARIANTS
    SubstitutesByBenchOrder
    BoundsHold
    VerdictsHold
