SPECIFICATION Spec
CONSTANTS
    Leagues = {L1}
    Demo = Demo
    NoLeague = NoLeague
    Managers = {m1, m2}
    Pairs = {p1}
    NoPair = NoPair
    Conditions = {c1}
    NoData = NoData
    Unreadable = Unreadable
    Links <- MCLinks
    MaxEvents = 3
    MaxServed = 2

INVARIANTS
    OnePicture
    AnswersTheQuestion
PROPERTIES
    Settles
CHECK_DEADLOCK FALSE
