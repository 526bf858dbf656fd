CONSTANTS
    a1 = a1
    r1 = r1
    r2 = r2
    s1 = s1
    s2 = s2
    Rooms = {r1, r2}
    Sockets = {s1, s2}
    Guests = {}
    Accounts = {a1}
    Watched = {}
    MaxRetained = 1
    MaxVersion = 0
    Drain = TRUE
    None = none
SPECIFICATION Spec
SYMMETRY Symmetry
INVARIANTS
    LobbyGetsNoGrace
    DrainEndsTimers
    TypeOK
    EverySeatHasCustody
    ResumedIsConnected
PROPERTY
    OnlyModeratorsEvict
