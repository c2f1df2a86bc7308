SPECIFICATION Spec
CONSTANTS
    Addresses = {a1, a2, a3, a4, a5}
    Logins = {l1}
    Tokens = {s1, s2}
    SessionSeconds = 3
    IdleSeconds = 2
    Window = 2
    PerAddress = 1
    GlobalLimit = 3
    MaxAddresses = 4
    HashSlots = 1
    MaxSessions = 1
    MaxTime = 3
    MaxAttempts = 5
SYMMETRY Interchangeable
CHECK_DEADLOCK FALSE
INVARIANTS
    AttemptLimits
    AcceptedSessions
