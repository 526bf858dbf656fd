CONSTANTS
    a1 = a1
    r1 = r1
    s1 = s1
    Rooms = {r1}
    Sockets = {s1}
    Guests = {}
    Accounts = {a1}
    Watched = {s1}
    MaxRetained = 1
    MaxVersion = 1
    Drain = TRUE
    None = none
SPECIFICATION FairSpec
INVARIANTS
    NoRevocationLost
PROPERTIES
    MembershipEnds
    RevocationTakesEffect
