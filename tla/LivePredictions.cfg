SPECIFICATION FairSpec
CONSTANTS
    Writers <- Both
    Gameweeks = {1, 2}
    Deadline <- Closing
    Bucket = 2
    Near = 1
    MaxTime = 2
    Players = {1, 2}
    Builders = {1, 2}
    Workers = 1
    OutageErrors = 1
    HistoryTTL = 1
    MaxDownloads = 2
    MaxEvents = 1
CHECK_DEADLOCK FALSE
INVARIANTS
    OneBuild
    NeverMixed
    IndexesMatch
PROPERTIES
    NeverOverwritten
    Settles
